# Plasma AI Usage Monitor: a TLA+ verification project

The program is a KDE Plasma widget that watches AI providers and subscription
tools, keeps their usage history in SQLite, forecasts budgets and notifies the
user on the desktop and over webhooks. Its logic is C++ (`src/plugin/`) driven
by QML controllers (`src/package/contents/ui/`). There is one UI thread with an
event loop; concurrency comes from network replies, timers, worker threads for
database queries, a settings dialog that shares files and tables with the
running widget, and processes that die.

The project models the parts whose correctness depends on order: the delivery
of budget notifications, the refresh of a provider and its schedule, the signed
catalog, the syncs and usage periods of subscription tools, local activity, the
import of session logs, the usage database from its migrations to what its
queries show, forecasts, and the daily state. TLC checks each on small
instances, and TLAPS proves the safety properties for every value of the
constants; liveness is checked by TLC alone.

## 1. Inventory

For each component: the state it keeps, its operations, what is hard, and what
would make it correct. `PROJECT.json` names the sources and, under "hazards",
the line where each difficulty bites.

| Component | State | Operations | Hard | Correct when |
|---|---|---|---|---|
| Budget policy store (`budgetpolicyrepository.cpp`, `budgetpolicyschema.cpp`) | tables of policies, last recorded level, events, channel receipts; `m_policies` cache | `prepareTransitions`, `prepareChannelDeliveries`, `completeChannelDelivery`, `replacePolicies`, `reload` | one transaction per call, leases, retries, crash in between, cache per instance | settled events stay settled, verdict agrees with receipts, one open announcement, snooze kept |
| Notification controller (`NotificationController.qml`) | loop over events and due channels; cooldown stamps of the older path | `processBudgetPolicy`, timer, `onForecastsChanged`, `onPolicyChannelResult`, `processGuardrail` | drives the store and receives late answers; two shells process the same forecast | every claimed row is handed to its channel or its lease expires; a transition is told once |
| Webhook notifier (`webhooknotifier.cpp`) | requests under way | `sendPolicyChannel`, `postSlack`, `postDiscord` | timeouts, Retry-After, answer without attempt number | one answer per request |
| Provider refresh (`providerbackend.cpp`, `openaiprovider.cpp`) | generation, loading, error kind, Retry-After, paginations, active replies | `requestRefresh`, `cancelRefresh`, `setApiKey`, `handlePage`, `retryRequest`, `finishPagination` | stale replies and timers, abort loop that changes its own list, several endpoints with one error kind | no stale effect, a refresh ends and decides every endpoint |
| Refresh scheduler (`RefreshScheduler.qml`, `refreshschedulermodel.cpp`) | one timer and deadline per source, recovery timer, popup and network state | timer, popup, refresh all, network and wake recovery | a deadline depends on six things, each with a signal of its own | the timer is set for the present state; a provider is asked again and again |
| Catalog (`catalogupdater.cpp`, `catalogloader.cpp`) | catalog and metadata file, check state file, loaded catalog | `checkForUpdate`, `installSignedFeed`, `restoreOrCleanupCache`, `load` | two files, failing writes, crash between commits, old copies of a feed | no rollback, a failed installation is undone |
| Usage database (`usagedatabase.cpp`) | SQLite file, request generations, write throttles, operation locks | migrate, record, query, bucket, inspect, prune, export | several connections, statements that fail, late worker results | migrations atomic, snapshots whole, newest request wins, one operation of a kind |
| Forecasts (`guardrailmodel.cpp`, `RuntimeCoordinator.qml`) | generation, works, cache of 16 results, timer | `start`, `finish`, `invalidateCache` | results out of order, changes while a worker reads | published forecasts are of the last query and history |
| Local session import (`localsessionmodel.cpp`, `localsessionparser.cpp`) | sessions, events, counters, file points, cursors, lock | import, cancel, clear, retention | resumable import file by file; cumulative totals; files cut, moved, torn | a token is counted once, what is called reported is whole, every file is read |
| Local activity monitors (`localactivitymonitorbase.cpp`) | file snapshot, watches, debounce, generation | watch, scan, compare | gap between listing and watching | activity is counted once and not missed |
| Subscription tools (`subscriptiontoolbackend.cpp` and its monitors) | usage and periods, quota windows, sync generation, retry time, circuit breaker | sync, cancel, reset period | several replies per sync, cancel, retry, three writers of one count | no effect of a cancelled sync or another account; a count belongs to its period |
| Daily state and readiness (`dailystatemodel.cpp`, `sourcereadinessmodel.cpp`) | rows and summary as last drawn | rebuild on a change and each minute | values that grow old without a signal; merged metrics; ten ordering rules | nothing old counts, the first row is the most urgent, spend adds up |
| Secrets (`secretsmanager.cpp`) | wallet handle, cache per instance | store, get, remove | two instances, asynchronous opening | providers get the stored key |
| Pricing, cost, cycles | catalog data | arithmetic | dates, currencies | agree with a reference definition |
| Metrics server, update checker, pages | little | I/O, rendering | none of their own | |

Interactions. A provider's refresh ends in `dataUpdated`; the runtime records it
in the usage database and starts a forecast query; `GuardrailModel` publishes
forecasts; the notification controller evaluates each against the budget store
and hands events to the desktop and the webhook notifier, whose answers come
back to the store. The settings dialog writes policies through its own
repository instance, credentials through the wallet, and configuration values
that the widget observes. The catalog updater replaces the pricing catalog that
cost estimates use.

## 2. Modules and their correspondence to the code

`PROJECT.json` "map" names the lines behind every definition.

### BudgetDelivery

One policy of one applet; the rows of different policies are disjoint.

* Store: `row` is the policy in `budget_policies` (notification switch and
  snooze), `recorded` its row in `budget_policy_state`, `event` and `delivery`
  are the status columns of `budget_policy_events` and
  `budget_policy_deliveries` keyed by period and transition, which is the code's
  deduplication key; `attempts`, `nextAt`, `lastAt` the attempt counter, the
  next attempt time and the last acceptance of a channel. `epoch` counts
  replacements of the policies: event ids are AUTOINCREMENT and are never used
  again.
* Widget: `cached` is `m_policies`, filled at start and after the instance's own
  writes; `mode` is the controller's reason to be quiet (none, Do Not Disturb,
  switched off); `enabled` the configured webhooks; `forecast` what
  `GuardrailModel` last published, with its time.
* Controller: `work` and `due` are the loops of `processBudgetPolicy`. They run
  to completion on the UI thread: other handlers wait (`Idle`), a crash does not.
* `Evaluate` is all of `prepareTransitions`, one transaction. `Handoff` is
  `prepareChannelDeliveries`: staleness, the snapshot of enabled channels,
  cooldown, lease, attempt limit, aggregate. `Complete` is
  `completeChannelDelivery`. `NotifyDesktop`, `RejectWebhook` and `PostWebhook`
  are what happens to one due channel; `Reply` is an answer.
* Environment: `Tick` (a minute), `Configure`, `Apply` (the settings dialog's
  `replacePolicies`), `Crash`.

Abstractions: a risk level is a model value; an answer is accepted,
retryable or not; seconds are rounded to minutes, a lease (`max(60 s, cooldown)
+ 15 s`) up. A transaction is atomic and its failure leaves everything as it
was, which is a stuttering step. The invalid-forecast returns are left out: the
runtime builds forecasts from the policies themselves.

### ProviderRefresh

The lifecycle of `ProviderBackend` with `OpenAIProvider` as the adapter, the one
that uses all of it. `calls` holds page requests and retry timers with the
generation and the credential they were made with; `open` and `owner` are
`pending` and `generation` of each `PaginationState`; `count` and `pages` are
`m_pendingRequests` and `m_logicalPageRequests`; `capability` and `problem` the
status and diagnostic shown per endpoint; `data` tells with which credential an
endpoint's values came. `Refresh` is `requestRefresh` and `refreshImpl`
together, including the cancellation by a manual refresh (two generations);
`AfterAbort` is the abort loop over a list that its own signal handlers change:
it may skip any reply. `Returns` is a reply or a timer, whichever way it goes.

Abstractions: "partial" counts as "failed"; 408, 425, 429 and 5xx are one
retryable class, 401 and 403 one refusal, everything unreadable is "Schema";
Retry-After is a flag that says it lies in the future.

### CatalogCache

`catalog` and `meta` are the two cache files, named by sequence number;
verified means the digest in the metadata is the catalog's. `etag` and `due` are
the check state file, `loaded` the catalog in use. `step` cuts
`installSignedFeed` at its two commits and its restore, where a process can die
or a write can fail. Signatures and expiry are one choice: a feed is installable
or rejected (`Reject`).

### RefreshPromise

What `ProviderRefresh` promises to the scheduler and the views, without pages,
requests, retries and replies: a refresh awaits one answer of every endpoint, is
loading while it does, shows an answer only under the credential it was asked
with, and ends. `ProviderRefresh!Promise` is the refinement mapping: what is
awaited are the open paginations of the present generation. `KeepsPromise` is
checked by TLC with fairness, and its safety part is proved.

### RefreshSchedule

The timer of one remote provider with one endpoint (`openaicompatibleprovider`),
the deadline with back-off, jitter and Retry-After, and everything that moves
it. `Update` is `updateNextSchedule`; `NetChanges`, `RecoveryFires` and `Sleep`
are reachability, recovery and a jump of the clock; `StoreKey`, `RemoveKey` the
wallet. Times are ages and remainders, so the model is finite without a bound on
time.

### SubscriptionSync, SubscriptionUsage and AntigravitySync

`SubscriptionSync` is one tool's sync: generations, the chain of requests of
Claude (bootstrap, usage), Codex (local login, then the browser's) and Copilot
(account, billing), `syncNeedsAction`, `retryAfter`, failures, the circuit
breaker of the browser's cookie extraction, and the timer in
`RefreshScheduler.qml`. The user signs in and out outside the program.
`SubscriptionUsage` is the counter of a period (rolling or ending at a reset
day), fed by activity and overwritten by a sync, and the synced quota windows
with their freshness, under a clock that can be set back.

`AntigravitySync` reads a local language server. `Discovered` is the order in
which `discoverEndpoints` lists endpoints: those of the discovery files in any
order, then those of the processes by port. `TryNextEndpoint` asks one and keeps
the rest in `pending`; `NotUnderstood` falls back to the older protocol,
`StatusArrives` goes on to the shared quotas, `LegacyArrives`, `SummaryMissing`
and `SummaryArrives` succeed. `Merged` is what `setSyncedQuotaWindows` does with
the rows. A sync may be asked for at any time the monitor is enabled and idle:
the timer that does is left out.

### LocalActivity

`m` is the state of `LocalActivityMonitorBase`: watches, baseline, snapshot, the
running scan, whether another is due, the debounce timer. A scan reads entry by
entry while the tool creates, writes, replaces and deletes them; `ScanFinished`
is the whole finished handler, including watches that are refused and the one
follow-up after a baseline. `superseded` are scans of earlier generations.

### SessionImport and SessionRequests

`SessionImport` is what a scan does: discovery and the two cursors, the merge of
new and changed files within a budget, records that are cumulative totals
(Codex) or messages (Claude), conflicts, partial sessions, the point up to which
a file was read, retention and deletion. Files grow, are torn, cut, moved or
become unreadable meanwhile, and scans are given up between two files.
`SessionRequests` is who asks: timer, consent, deletion, the worker with its
generation, and the lock shared with other importers. `spent` is a history
variable: what a session has used since the last deletion, which the program
does not know and its sums must not exceed.

### SchemaMigration, HistoryRecording, HistoryOperations

`SchemaMigration` is opening the file: seven steps, each reading the version,
copying the file and then running its transaction, by several connections that
fail and die at any statement. `HistoryRecording` is what two shells record of
refreshes and forecast transitions, statement by statement over a WAL file.
`HistoryOperations` is inspection, pruning and export with the process-wide
lock, the settings pages and the timers.

### HistoryBuckets, HistorySeries, AnalystQueries, ForecastQueries

`HistoryBuckets` computes a series from the observations the way the SQL of
`getHistorySeries` and `buildHistorySeriesPayload` do one after the other: rows of
a bucket, meaning and quality (`Key`, `Partition`, `Row`), points of a bucket and
gaps.

The others are three views over worker threads that answer in any order. Each models the view's
request numbers, the database's "latest request" and what is displayed;
`ForecastQueries` has the cache of results and the bounded thread pool as well.

### SourceState and DailyState

`SourceState` holds the rules that make one row of a backend and the clock:
freshness, readiness, quota windows, quality, budget, attention. `DailyState`
lets sources and settings change and time pass, draws when the code draws, and
asks whether the rows, their order and their sum are what the sources say. It
starts with any set of enabled sources; the run, with two providers and a tool
that are all enabled and may be switched off.

### Compositions, model-checking modules and proof modules

`Storage`, `Tools` and `Queries` put components together that share a process
and no state: each EXTENDS one of them and instantiates the others, declares the
constants with their assumptions, and names the properties that relate to more
than one ("the views are current"). The runs check and the theorems state these
very definitions.

`MCStorage`, `MCTools` and `MCQueries` extend the compositions and give them
small instances. The variable `checked` is chosen in the initial state and never
changes: a behaviour runs the chosen component and leaves the others as they
start, so the state space is the sum and not the product of theirs. A component
that stays as it starts satisfies its properties trivially, so every property is
about the chosen one; a component is instantiated once per configuration that
matters (rolling and monthly periods, files that are and are not refused).
`MCBudgetDelivery` gives the function-valued constants, `MCAntigravity` an
account with two models.

A module with `_proofs` in its name extends its component, or the composition,
and TLAPS. `Storage_proofs`, `Tools_proofs` and `Queries_proofs` hold the
theorems about the properties the composed runs check; the first instantiates
`HistoryOperations_proofs` and `HistoryRecording_proofs`. `Sums_proofs` has the
lemmas on sums over finite sets and on recursive functions that the last two
use.

## 3. Runs

| Run | Result | Question |
|---|---|---|
| budget_delivery | pass | Do crashes, retries, leases and late completions ever re-open or contradict what is settled? |
| budget_periods | pass | Over two periods, with Do Not Disturb and switched-off alerts: is one announcement open at a time, is a snooze respected, and is everything of a past period eventually settled? |
| provider_refresh | pass | Are stale replies harmless, does each refresh end and decide every endpoint, and keep RefreshPromise? |
| storage | pass | Does the signed catalog ever go back or a failed write show, is an upgrade safe wherever it stops, is what is recorded whole, do operations exclude each other? |
| tools | pass | Is there one live request per sync and no figure of another account or period, is a provider's timer set for the present, are session logs imported once and wholly? |
| queries | pass | Do views show the newest of what was asked, is a series faithful, does nothing old count in the daily state, is local activity counted once? |
| budget_outdated | violation | Is what is announced the recorded state? |
| budget_snooze | violation | Does a snooze set in the dialog hold in the running widget? |
| provider_user_action | violation | Does an error that needs the user stop automatic refreshes? |
| catalog_disk_full | violation | Does a failed activation always leave the previous cache? |
| schema_two_connections | violation | Can a second connection move an upgraded file back? |
| antigravity_rows | violation | Does each model of an account keep its row? |

The three composed runs answer these in parts:

| Run | Component | Properties |
|---|---|---|
| storage | catalog | `TypeOK`, `OneFaultIsUndone`, `NeverRollsBack` |
| | upgrade (one connection, from any schema, crashes) | `UpgradeIsSafe`, `ScopesKept`, `WorkEnds` |
| | operations (one settings page and the timers) | `OneOfAKind`, `ResultsAreCurrent`, `WorkEnds` |
| | forecasts and refreshes (two shells) | `RecordsAreSound`, `WorkEnds` |
| tools | sync of Claude, Codex, Copilot | `OneCallPerSync`, `DeadlineKept`, `SyncsWhenAllowed`, `MetricsOfCurrentAccount`, `ToolsEnd` |
| | rolling and monthly periods | `UsageIsCurrent`, `CountedInItsPeriod`, `ToolsEnd` |
| | sync of Antigravity | `UsageIsCurrent`, `ToolsEnd` |
| | schedule | `DeadlineIsCurrent`, `ToolsEnd` |
| | logs of Codex and of Claude, refused logs; requests | `ImportIsFaithful`, `ToolsEnd` |
| queries | forecasts | `ForecastsAreCurrent`, `NeverBack`, `QueriesSettle` |
| | series and analyst | `ViewsAreCurrent`, `QueriesSettle` |
| | buckets (every sequence of three observations) | `SeriesIsFaithful` |
| | daily | `DailyStateIsSound`, `QueriesSettle` |
| | activity | `ActivityIsCounted`, `QueriesSettle` |

`CHECK_DEADLOCK FALSE` appears in the runs because a clock, a counter or the
generations of a model are bounded and run out.

Each property of a passing run has a mutant, a plausible bug in one of the
mapped definitions, which TLC finds. The mutated forms stand in the modules
just before the definition they mutate, marked "Mutant".

### Findings

* **budget_outdated.** The user guide (`history-and-integrations.md:218`) says
  outdated events are suppressed. A warning held back by Do Not Disturb is
  superseded only by another level or a recovery; when the forecast turns
  unavailable first, neither is raised, and the warning is sent later.
* **budget_snooze.** The user guide (`runway-guardrails.md:145`) says a snooze
  lasts until the next period. The widget's own repository does not see what the
  dialog's wrote before it is restarted (or clears an expired snooze).
* **provider_user_action.** `reliability-core.md:25` says authentication errors
  wait for the user. A provider has one error kind: with several endpoints the
  last failure wins.
* **catalog_disk_full.** `catalog-feed.md:18` says a failed activation leaves the
  previous verified cache. The restore ignores its own failures; afterwards the
  cache is neither used nor ever updated.
* **schema_two_connections.** `configuration-reference.md:85` calls migration
  idempotent. A connection that read schema 7 and paused before its transaction
  sets a file that another brought to 9 back to 8, after which the step to 9
  fails at every start.
* **antigravity_rows.** `subscriptions.md:23` says the widget keeps the per-model
  rows of an Antigravity account. Rows are merged by kind, window, scope and
  source, in which all models agree: the last one with a figure is left.

Further disagreements were met while modelling. They are in the models, and the
properties that hold are stated so as to leave them out; no run shows them:

* Codex syncs go on while the network is reported as disconnected
  (`RefreshScheduler.qml:173`; `reliability-core.md:18`).
* After `codex login` automatic syncs stay paused until a wake-up, reconnection
  or restart (`RefreshScheduler.qml:313`; `subscriptions.md:48`); a refused
  Claude session can never be repaired by logging in again
  (`RefreshScheduler.qml:157`; the message at `claudecodemonitor.cpp:131`).
* A forecast served from the cache outlives the budget period it was made in
  (`guardrailmodel.cpp:200`).
* A history request that needs no query leaves the older one acceptable
  (`HistoryController.qml:184`), and analyst request ids start again with every
  new view (`AnalystState.qml:46`; both `reliability-core.md:266,330`). An
  analyst report is four SELECTs without a transaction (`analystquery.cpp:145`;
  `reliability-core.md:329`).
* A series may have 241 points (`usagedatabase.cpp:158`; the test
  `test_history_contract.cpp:527` expects at most 240). An export whose query
  fails after some rows counts as written (`usagedatabase.cpp:2934`).
* A failed refresh of a compatible adapter stamps its last refresh, so the
  popup and network or wake recovery take it for fresh; the back-off never
  exceeds a factor of two because the start of a refresh resets
  `consecutiveErrors` (`providerbackend.cpp:329`).
* Retention deletes a session's counter and keeps the point in its file: a Codex
  session that resumes afterwards is counted from zero again.
* Switching off during an Antigravity sync leaves the connection state at
  "connecting" (`subscriptiontoolbackend.cpp:175`). A sync that fails reports
  the code of the last endpoint, so that "not signed in" of one server hides
  behind the certificate of another, and the timer then tries again
  (`antigravitymonitor.cpp:1003`).
* A scan of local activity that is not the first has no follow-up: a change
  between its reading a new file and watching it is not seen before the next
  change.

### Bounds, and why they are enough

* Budget: one risky level is enough for delivery (levels matter only to
  `Evaluate`), two are needed to supersede; one webhook beside the desktop gives
  two receipts to aggregate; four minutes with a cooldown of one let a row go
  through its lease and all three attempts; two periods of two minutes cover a
  change of period. One crash per behaviour suffices for a hazard between two
  transactions; the proofs cover any number.
* Provider: two endpoints give the counter something to miscount, page limit 3
  leaves one page to follow and one to refuse, one retry reaches retry, give-up
  and timer; three generations allow a refresh that supersedes a refresh.
* Catalog: three sequences, four checks, two failures and a crash allow an
  old copy of a feed, a failed restore, a crash in each step and a recovery.
* Storage: upgrades start from every schema with two rows, two faults and one
  connection (two are proved, see below); three operations and one failure
  let a refused one, a scheduled one and a failed one meet; two shells, two
  changes of the outlook and one fault give both an interleaved and a failed
  recording.
* Tools: two logins, two generations and one moment past the first back-off; a
  rolling period of two in four units; a calendar of four months of different
  lengths; two syncs of Antigravity with an endpoint of each kind; two files of
  Codex and one of Claude with one disruption, three files of which a scan takes
  two, for starvation; two generations of import requests.
* Queries: one change of the history against workers in any order; three
  observations in a range of four give two in a bucket, a gap and two qualities; two
  providers and a tool with two changes in four units of five minutes (fresh
  means three); a file, and a file in a folder, with two changes, a superseded
  scan and a refused watch.

### Fairness

* `BudgetDelivery!FairSpec`: weak fairness of the controller's loop (the UI
  thread runs its handlers), of forecasts (every refresh ends in one), of
  answers (webhook requests have a 15 s transfer timeout) and of time. The timer
  needs none and stops when alerts are switched off; nothing is assumed of the
  user.
* `ProviderRefresh!FairSpec`: weak fairness of "some call returns". Requests
  have a transfer timeout and retry timers a bounded delay. Fairness of single
  calls is not needed because calls are finite and do not grow.
* `RefreshPromise!FairSpec`, which `ProviderRefresh` implements: an endpoint
  answers in the end, if only by its timeout.
* Composed runs: weak fairness of what the program or its threads do by
  themselves: workers and replies (all with timeouts), single-shot timers, the
  clock, the minute timer of periods, the drawing of the daily state, file
  events and scans. Each holds only for the component that is checked. None is
  assumed of the user, of other processes, or of a retry that the program does
  not make: an upgrade is retried because every start of the program tries.
* `CatalogCache` states no liveness: the check request has no transfer timeout
  (`catalogupdater.cpp:474-481`), so the code justifies none.

## 4. Proofs

All theorems hold for every value of the constants that satisfies the ASSUMEs
(natural numbers, at least one endpoint, page limit not below the number of
endpoints, distinct names, months that have days, loopback among the hosts, and
finite sets where the code has finitely many), which TLC evaluates on every run.

Budgets (`BudgetDelivery_proofs`).

* `BudgetInv` is the conjunction of `TypeOK`, `SettledEventsAreQuiet`,
  `VerdictMatchesReceipts` and `OneOpenAnnouncement`. Neither of the middle two
  is inductive alone: a verdict stays right only because a settled event has no
  open row left, and a settled event stays quiet only because the aggregate
  waits for the last row. `EvaluateInv` and `CompleteInv` are the lemmas per
  transaction, `AggregateInv` the one for the verdict. `SettledFinal` (the action
  property) follows step by step: a row is completed only while it is in flight,
  so its event is pending. It covers late replies and any number of crashes and
  replacements.
* `AcceptedOnce`: a channel whose acceptance the widget has seen is never tried
  again. `AttemptInv`: a claimed row stays leased until its channel answers,
  unless its event is suppressed meanwhile, and has one request. A reply does not
  name the attempt it answers, so the theorem needs requests that end before
  their lease does (`~LateReplies`). TLC finds the property violated without
  that hypothesis: a transfer timeout and a lease that run on different clocks,
  as over a suspend to RAM, allow it.
* `SnoozeHolds`: until the dialog replaces the policies, no attempt starts while
  the policy is snoozed. `SnoozeInv`: until then the widget's copy is the stored
  policy, and what an evaluation leaves to announce is not snoozed, for an
  expired snooze is cleared in the same transaction.

Refreshing (`ProviderRefresh_proofs`, `Tools_proofs`).

* `RefreshInv` adds to the properties that live calls match pending paginations
  one to one and carry the current credential (`Matched`), that nothing carries a
  generation of the future (`NoFuture`: otherwise a new refresh could revive an
  old reply), and what a refresh under way has decided (`Progress`).
  `FinishKeepsCount` relates the counter to the cardinality of the pending set.
  The same invariant gives the two action properties.
* `KeepsTheSafetyOfThePromise` proves the refinement: under `RefreshInv` every
  action maps to an action of `RefreshPromise` or a stutter. A reply of an
  earlier generation stutters because no open pagination owns it; a page or a
  retry stutters because its pagination stays open; only the end of a pagination
  answers, and `Progress` says whether it is the last.
* `KeepsItsDeadline`, of the one-shot timer of a provider. `ScheduleInv`: the
  deadline is the one of the present state, and the timer never runs out before
  it. Sleep stops the timer and not the clock, so it may fire late, but what
  fires is accepted and gives a new deadline.

Subscription tools (`Tools_proofs`).

* `SyncInv`: a sync that is shown has exactly one request of the current
  generation and an idle monitor has none, no request is of a generation yet to
  come (a cancellation could otherwise revive it), and Copilot's carries the
  account that is set. `OneCall` and `OfCurrentAccount` follow.
* `KeepsDeadline` by `TimerInv`, of Codex and Copilot: a ready source has a
  deadline, and a deadline has a running timer. The second half is needed because
  a deadline that has passed is not computed again until something reschedules
  it.
* `StartsWhenAllowed` by `RetryKept`. Copilot's automatic sync asks nothing about
  the retry state: that it obeys it is a fact about its timer, whose deadline is
  after the Retry-After of the last failure and absent while the user must act.
  For Codex, a refused login that is remembered means that the user must act.
* `CountsInItsPeriod` and `UsageStaysCurrent`, of a calendar with any months. A
  moment lies in one month because the days before a month grow (`DaysGrow`), and
  the end of its period is the first reset midnight after it (`EndIsNextReset`).
  `DaysBefore` is a recursive function; what grows along the months is shown by
  the smallest month for which it fails.
* `ImportStaysFaithful`, for any number of sessions, files, records, scans and
  disruptions. The totals that logs hold say little about what was used: the
  tool may restart its count, a file may be cut or torn, retention drops a
  counter and a deletion begins anew. So the invariant speaks of a *story*, a
  function that says what each session had used at each time (`Story`). It is
  not a variable: `ImportInv` says that there is one which all logs fit
  (`Told`: between two records of a log no less was used than they differ by)
  and the store fits as well (`Reads`: the events of a session add up to no more
  than the story has at the time of its counter, and to all the counter says
  where the session is not partial; `Within`: nor do the records around the
  counter contradict it). A record that is written prolongs the story
  (`AppendedSound`), one that is read moves the counter along it
  (`CountedGoesOn`), files that are cut, moved or refused bound it less
  (`NarrowsKeeps`), and a deletion starts with a story of nothing
  (`ClearedSound`). The second half is about the points: what a file holds
  before its point was read (`ReadTo`), unless it is to be read anew. It is kept
  record by record, and the records of a file are a recursive function that
  `RecordsKeep` follows to its end. The transactions of single files then need
  no order. `RequestInv` is about the requests: none is of a generation yet to
  come, so a scan that was completed for an earlier one is not shown as of now.
* `UsageStaysCurrent` includes Antigravity. `ServerInv` is the pattern of
  `SyncInv` over endpoints that were discovered in some order and are asked one
  after the other: `TryKeeps` is the step from one endpoint to the next, and a
  failure is shown only with nothing left in `pending`.

Storage (`Storage_proofs`).

* `NoRollback` and the catalog: what is loaded is the packaged catalog or the one
  the metadata names, and during an installation the replaced file is the one the
  metadata names. The metadata only moves up.
* `UpgradesAreSafe` and `ScopesAreKept`. `UpgradeInv` says at each statement of
  each connection what the file holds and what its undo holds. With one
  connection it covers every schema; with any number it needs files of schema 4
  or later (`Upgradable`). That hypothesis is not a convenience: with two
  connections that find schema 3, TLC shows tables missing, scopes lost, and
  something left behind; and the parts of the property that no two connections
  have (the copy is made first, nothing is left behind) are claimed of one.
* `RunsAlone` and `ResultsCurrent` (`HistoryOperations_proofs`). The kinds that
  are marked as active are those of the workers that have not been answered.
  `ResultsInv` relates what a page shows to the operations that ended since.
* `RecordsStaySound` (`HistoryRecording_proofs`). `RecordInv`: each point of the
  program has its state of the transaction, one connection writes, only one that
  has read and not written can be behind the file, and an announcement that is
  pending is counted.

Views (`Queries_proofs`).

* `ForecastsStayCurrent` and `ShownNeverGoesBack`. Only the worker of the last
  request is not cancelled, and nothing else is shown while it runs, so what it
  reads is at least as new as what is shown (`LiveIsNew`). The hard case is an
  old worker that finishes after a change and shows a newer history than a cached
  answer: `CacheIsNew` excludes it, because a change empties the cache and no
  worker may have been asked about another revision while the cache answers the
  present one. `OrderInv` ties the cache to the order of its eviction.
* `ViewsStayCurrent`. `ViewInv`: requests are numbered and a worker's number is
  at most the last; the series that may still arrive is that of the selection,
  and the catalog the selection is made from is the last answer's
  (`CatalogKept`, `SelectionKept`); a report that is accepted is that of its
  period (`InsightsInv`).
* `ActivityStaysCounted`, for any finite set of files and folders. `ActivityInv`:
  every change that is not counted is either reported (`Pending`) or was made
  where nothing watched yet (`Missed`), and in both cases a signal, a timer or a
  scan is to come; what is in a folder is not older than the folder.
* `SeriesStaysFaithful`, for any number of observations in any order, any range
  and any limit of points. The lemmas of `Sums_proofs` say of the library's sums
  over finite sets what arithmetic needs: they do not depend on the order
  (`SumRemove`), are additive (`SumUnion`) and may be taken class by class
  (`SumByClass`). The last is used twice, as the code adds up twice: the rows of
  a bucket by quality, the buckets of a series. A latest observation exists
  (`LatestExists`), and a bucket of `ceil(range / limit)` seconds leaves at most
  one bucket above the limit (`LongEnough`, `Bucketed`).
* `DailyStateStaysSound` and `EverySourceIsShown`, for any finite set of
  providers, whatever they report and when. The rows are a choice of a sequence
  that is sorted, so they are known only once such a sequence exists: a finite
  set can be sorted by a transitive relation that decides between any two members
  (`Sorting`), and the code's comparison is one on the rows of different sources
  (`SmallerKeys`, `OrderOfSources`). Then no source is lost (`RowsInOrder`), and
  the first row is the most urgent because a reason's place tells its severity
  (`SeverityOfPlace`). `DailyInv` is about the metrics of a backend: once it was
  billed all its costs are billed, before that all are estimated. It needs what
  setting the metrics of a report one after the other leaves (`MetricSet`,
  `ReportSet`); from it every row's spend is of one quality, and `GroupsAddUp`
  adds the groups up with `SumByClass`. What is drawn is judged at the time it
  was drawn, an age a backend's interval allows (`AgeOfProvider`).

No module uses RECURSIVE operators. Induction is by least counterexample, from
the well-foundedness of the natural numbers.

Only model-checked: `SnoozeRespectedUnedited`'s hypothesis (see the finding on
snoozes) and all liveness (`PastPeriodsSettle`, `RefreshEnds`, the fairness of
`KeepsPromise`, `WorkEnds`, `ToolsEnd`, `QueriesSettle`), which is outside the
prover's reach.

## 5. Not modelled

Texts, layout, parsing, signatures and pricing arithmetic are abstracted
everywhere. Beyond that:

* **Budget store:** migration of legacy budgets, editing single policies.
* **Notification controller:** announcements of source states and updates.
* **Other provider adapters:** their own part is building requests and reading
  answers; the lifecycle is `ProviderRefresh`.
* **Usage database:** rate-limit events, the pruning of guardrail events while
  recording, the compact summaries. WAL is taken at its word: a COMMIT that
  fails is undone.
* **Local session import:** byte budgets, the context cache, project aliases. A
  file cut and grown past its old size between two scans is taken for a longer
  one by the code; the model assumes it is noticed. Two records are assumed to
  have different times; the boundary of an import and of retention are one
  horizon; a worker's answer is delivered before that of a deletion that gets
  the lock after it.
* **Local activity:** a scan cut at 4000 entries, a root folder that appears
  after its watch, two changes within one tick of the file system's clock.
* **Antigravity monitor:** the checks that a process or a file is the user's (the
  model takes those that pass), the layout of its answers, its timer.
* **Secrets:** the wallet is a service of the desktop; keys that arrive, change
  and vanish are actions of `ProviderRefresh` and `RefreshSchedule`.
* **Pricing:** floating point and time zones. **Metrics server, update checker,
  pages:** no state whose order matters.

## 6. Plan

Done, most important first: `BudgetDelivery`, `ProviderRefresh` with
`RefreshPromise`, `CatalogCache`, then the subscription tools, the usage
database, the views, the daily state, recording, the refresh schedule, session
import, local activity and Antigravity; proofs of the safety of all of them.

Next: `Secrets`, as two caches over one wallet composed with `SetKey`.
