----------------------------- MODULE DailyState -----------------------------
(***************************************************************************)
(* The daily state (plugin/dailystatemodel.cpp): one row per enabled       *)
(* source, sorted by urgency, and their summary.  Both are rebuilt when a  *)
(* source changes and once a minute; in between they stay as they are      *)
(* while the clock goes on.  As every change rebuilds them they are always *)
(* those of the sources as they are now, at the time of the last rebuild.  *)
(*                                                                         *)
(* A source changes in one step: its reports are read only when the window *)
(* is drawn, after the last signal.  What a report holds is one of a few   *)
(* kinds that the adapters produce with the setters of                     *)
(* plugin/providerbackend.cpp.                                             *)
(***************************************************************************)
EXTENDS SourceState

CONSTANTS
  Providers,    \* the sources that are providers
  Tool,         \* the subscription tool
  MaxInputs,    \* bound on changes of sources and settings
  MaxTime       \* bound on the clock

VARIABLES
  world,    \* what the model reads: the backends of the providers and of
            \* the tool, the enabled sources, the two thresholds
  now, inputs,
  drawn     \* m_presentationTime, the time of the last rebuild

vars == <<world, now, inputs, drawn>>

Sources == Providers \cup {Tool}

\* Every second provider is refreshed twice an hour only.
Interval(p) == IF p = Min(Providers) THEN 1 ELSE 6
Order(id) == IF id = Tool THEN Cardinality(Providers) + 1
             ELSE Cardinality({p \in Providers : p <= id})

-----------------------------------------------------------------------------
(* What the backends hold *)

Metric(kind, value, currency, window, period, source, at) ==
  [kind |-> kind, value |-> value, available |-> TRUE, currency |-> currency,
   scope |-> "api_key", window |-> window, period |-> period, source |-> source,
   observed |-> at, reset |-> Never, scoped |-> FALSE]

Identity(m) == <<m.kind, m.scope, m.window, m.period, m.scoped>>

(* Mutant: an estimate stays beside the cost that was billed.              *)
SetMetricBeside(ms, m) ==
  Append(SelectSeq(ms, LAMBDA c : Identity(c) # Identity(m)), m)

(* setProviderMetric: a billed cost replaces the estimates, a metric the   *)
(* one of its identity.                                                    *)
SetMetric(ms, m) ==
  LET billed == m.kind = "cost" /\ m.source # "estimated_pricing"
      replaced(c) == \/ billed /\ c.kind = "cost" /\ c.source = "estimated_pricing"
                     \/ Identity(c) = Identity(m) /\ m.currency \in {"", c.currency}
      kept[i \in 0 .. Len(ms)] ==
        IF i = 0 THEN <<>>
        ELSE IF replaced(ms[i]) THEN kept[i - 1] ELSE Append(kept[i - 1], ms[i])
  IN Append(kept[Len(ms)], m)

(* The metrics of a report are set one after the other.                    *)
SetMetrics(ms, report) ==
  LET set[i \in 0 .. Len(report)] == IF i = 0 THEN ms ELSE SetMetric(set[i - 1], report[i])
  IN set[Len(report)]

(* What a refresh may report.  Rate limits come with the reset of their    *)
(* window (setRateLimitResetTime), costs with the period they were billed  *)
(* for, and once more split by project.                                    *)
RateLimit(kind, value) ==
  [Metric(kind, value, "", "minute", Never, "response_headers", now) EXCEPT !.reset = now + 2]

ReportKinds == {"plenty", "scarce", "none left", "billed", "estimated", "credit"}

RateLimits(remaining) ==
  <<RateLimit("request_limit", 50), RateLimit("request_remaining", remaining)>>

Cost(value, currency, window) == Metric("cost", value, currency, window, 1, "billing_api", now)

Reported(kind) ==
  IF kind = "plenty" THEN RateLimits(40)
  ELSE IF kind = "scarce" THEN RateLimits(5)
  ELSE IF kind = "none left" THEN RateLimits(0)
  ELSE IF kind = "billed"
  THEN <<Cost(2, "USD", "day"), Cost(9, "USD", "month"),
         [Cost(4, "USD", "month") EXCEPT !.scoped = TRUE], Cost(6, "EUR", "month")>>
  ELSE IF kind = "estimated"
  THEN <<Metric("cost", 3, "USD", "current", Never, "estimated_pricing", now)>>
  ELSE <<Metric("credit_balance", 7, "USD", "current", Never, "actual_api", now)>>

Silent ==
  [metrics |-> <<>>, lastSuccess |-> Never, next |-> Never, error |-> "None",
   state |-> "Idle", connected |-> FALSE, loading |-> FALSE, hasKey |-> TRUE, billed |-> 0]

Window(kind, window, value, source, reset) ==
  [kind |-> kind, window |-> window, value |-> value, available |-> TRUE, source |-> source,
   precision |-> IF source = "browser_sync" THEN "official" ELSE "self_tracked_local",
   observed |-> now, reset |-> reset]

SyncKinds == {"plenty", "used up"}

Synced(kind) ==
  <<Window("quota", "session", IF kind = "plenty" THEN 60 ELSE 0, "browser_sync", now + 2),
    Window("quota", "week", 50, "browser_sync", Never)>>

Quiet ==
  [installed |-> TRUE, syncing |-> FALSE, watch |-> "", diagnostic |-> "", windows |-> <<>>,
   synced |-> Never, activity |-> Never, used |-> FALSE, spent |-> 0]

-----------------------------------------------------------------------------
(* Rows *)

Billed(ms) ==
  {m \in Range(ms) : m.kind = "cost" /\ m.available /\ ~m.scoped
                     /\ m.source \in ActualSources \cup EstimatedSources}

(* The costs of the row itself: those of the widest window.                *)
PreferredCosts(ms) ==
  LET costs == {m \in Range(ms) : m.kind = "cost" /\ m.available /\ ~m.scoped}
      of(w) == {m \in costs : m.window = w}
  IN IF of("current") # {} THEN of("current")
     ELSE IF of("month") # {} THEN of("month") ELSE of("day")

Currency(costs) ==
  LET currencies == {m.currency : m \in costs}
  IN IF costs = {} THEN "" ELSE IF Cardinality(currencies) > 1 THEN "MIXED"
     ELSE CHOOSE c \in currencies : TRUE

(* The scarcest number of requests that a limit of the same window bounds. *)
RemainingRequests(ms) ==
  {ms[i].value : i \in {j \in DOMAIN ms :
     /\ ms[j].kind = "request_remaining" /\ ms[j].available /\ ms[j].source \in ActualSources
     /\ \E k \in Limits(ms, j) : ms[k].source \in ActualSources /\ ms[k].value > 0}}

MonthlyBudget(p) == IF p = Min(Providers) THEN 10 ELSE 9
BudgetUsed(p, b, ms) ==
  IF \/ b.billed > 0
     \/ \E m \in Range(ms) : m.kind = "cost" /\ m.available /\ m.window = "month"
  THEN (b.billed * 100) \div MonthlyBudget(p)
  ELSE NoBudget

Quality(row) ==
  IF row.balance THEN "balance" ELSE IF row.actual THEN "actual"
  ELSE IF row.estimated THEN "estimated" ELSE IF row.connectivity THEN "connectivity_only"
  ELSE "unavailable"

(* finalizeRow *)
Finalized(row, w) ==
  LET a == Attention(row, w.warning, w.critical)
  IN [row EXCEPT !.priority = a.priority, !.severity = a.severity, !.reason = a.reason,
                 !.quality = Quality(row)]

Row(id, verdict, freshness, quotas, best, spend) ==
  [id |-> id, readiness |-> verdict.state, code |-> verdict.code, freshness |-> freshness,
   quotas |-> quotas,
   remaining |-> IF best = {} THEN NoQuota ELSE BestQuota(best).remaining,
   reset |-> IF best = {} THEN Never ELSE BestQuota(best).reset,
   actual |-> FALSE, estimated |-> FALSE, balance |-> FALSE, connectivity |-> FALSE,
   budget |-> NoBudget, requests |-> {}, currency |-> Currency(spend), spend |-> spend,
   success |-> Never, priority |-> 10, severity |-> "none", reason |-> "none",
   quality |-> "unavailable"]

ProviderRow(p, b, at) ==
  LET ms == MetricsAt(b.metrics, at, FreshnessMaxAge(b))
      live == {m \in Range(ms) : m.available}
      quotas == ProviderQuotas(ms)
      verdict == ProviderReadiness(b, at)
  IN [Row(p, verdict, ProviderFreshness(b, at), quotas, quotas, Billed(ms)) EXCEPT
        !.actual = \E m \in live : m.source \in ActualSources,
        !.estimated = \E m \in live : m.source \in EstimatedSources,
        !.balance = \E m \in live : m.kind = "credit_balance",
        !.connectivity = verdict.state = "connected_connectivity_only",
        !.budget = BudgetUsed(p, b, ms),
        !.requests = RemainingRequests(ms),
        !.currency = Currency(PreferredCosts(ms)),
        !.success = b.lastSuccess]

(* The extra usage a plan was billed for is spend of no period.            *)
ExtraUsage(t) ==
  IF t.spent = 0 THEN {}
  ELSE {Metric("cost", t.spent, "USD", "current", Never, "browser_sync", t.synced)}

ToolRow(t, at) ==
  LET quotas == ToolQuotas(WindowsAt(t.windows, at))
      live == ActualQuotas(quotas)
  IN [Row(Tool, ToolReadiness(t, at), ToolFreshness(t, at), quotas,
          IF live = {} THEN quotas ELSE live, ExtraUsage(t)) EXCEPT
        !.actual = HasFreshQuota(t, at),
        !.estimated = Recent(t.activity, at),
        !.success = LastQuotaObservation(t)]

RowOf(id, w, at) ==
  Finalized(IF id = Tool THEN ToolRow(w.tool, at) ELSE ProviderRow(id, w.backends[id], at), w)

-----------------------------------------------------------------------------
(* Order and summary *)

QualityRank == [actual |-> 0, estimated |-> 1, balance |-> 1, connectivity_only |-> 2,
                unavailable |-> 3]
SeverityRank == [critical |-> 3, warning |-> 2, info |-> 1, none |-> 0]
MostSevere(S) == Max({SeverityRank[r.severity] : r \in S} \cup {0})

(* Mutant: the quality of the data goes before the urgency.                *)
SortKeyByQuality(row) == <<QualityRank[row.quality], row.priority, row.remaining, 0, Order(row.id)>>

SortKey(row) ==
  <<row.priority, QualityRank[row.quality], row.remaining,
    IF row.reset = Never THEN MaxTime + 3 ELSE row.reset, Order(row.id)>>

Before(r, s) ==
  LET left == SortKey(r)
      right == SortKey(s)
  IN \E i \in DOMAIN left : /\ left[i] < right[i]
                            /\ \A j \in 1 .. i - 1 : left[j] = right[j]

SpendQuality(m) == IF m.source \in EstimatedSources THEN "estimated" ELSE "actual"

(* Mutant: spend is added up whatever its currency.                        *)
GroupKeyAnyCurrency(m, id) ==
  IF m.period = Never \/ m.window = "current"
  THEN <<SpendQuality(m), m.window, id>> ELSE <<SpendQuality(m), m.window, m.period>>

(* spendGroupKey: only spend of the same bounded period is added up.       *)
GroupKey(m, id) ==
  IF m.period = Never \/ m.window = "current"
  THEN <<SpendQuality(m), m.currency, m.window, id>>
  ELSE <<SpendQuality(m), m.currency, m.window, m.period>>

Spend(rows) == UNION {{[id |-> r.id, metric |-> m] : m \in r.spend} : r \in rows}

(* A group takes its labels from the first of its metrics.                 *)
SpendGroups(rows) ==
  LET key(e) == GroupKey(e.metric, e.id)
      of(k) == {e \in Spend(rows) : key(e) = k}
      label(k) == (CHOOSE e \in of(k) : TRUE).metric
  IN {[currency |-> label(k).currency, window |-> label(k).window,
       quality |-> SpendQuality(label(k)), sources |-> {e.id : e \in of(k)},
       value |-> SumFunction([e \in of(k) |-> e.metric.value])] :
         k \in {key(e) : e \in Spend(rows)}}

LowestQuota(qs) == IF qs = {} THEN NoQuota ELSE BestQuota(qs).remaining

FirstReset(resets) == IF resets = {} THEN Never ELSE Min(resets)

(* buildSummary *)
Summary(rows, at) ==
  LET all == Range(rows)
      live == UNION {ActualQuotas(r.quotas) : r \in all}
      requests == UNION {r.requests : r \in all}
  IN [useful |-> {r.id : r \in {x \in all : x.actual \/ x.estimated \/ x.balance}},
      attention |-> {r.id : r \in {x \in all : x.severity # "none"}},
      stale |-> {r.id : r \in {x \in all : x.freshness = "stale"}},
      highestSeverity |-> MostSevere(all),
      mostUrgent |-> IF rows # <<>> /\ rows[1].severity # "none" THEN rows[1].severity ELSE "none",
      lowest |-> Min({r.remaining : r \in all} \cup {NoQuota}),
      lowestActual |-> LowestQuota(live),
      nearestReset |-> FirstReset({r.reset : r \in all} \ {Never}),
      nearestActualReset |-> FirstReset({q.reset : q \in live} \cap at + 1 .. MaxTime + 2),
      requests |-> IF requests = {} THEN Never ELSE Min(requests),
      groups |-> SpendGroups(all),
      completion |-> Max({r.success : r \in all} \cup {Never})]

(* rebuild *)
Rows ==
  LET all == {RowOf(id, world, drawn) : id \in world.enabled}
  IN CHOOSE rows \in [1 .. Cardinality(world.enabled) -> all] :
       \A i, j \in DOMAIN rows : i < j => Before(rows[i], rows[j])

-----------------------------------------------------------------------------
(* Steps *)

(* Which sources are enabled is in the settings.                           *)
Init ==
  /\ \E enabled \in SUBSET Sources :
       world = [backends |-> [p \in Providers |-> Silent], tool |-> Quiet, enabled |-> enabled,
                warning |-> 80, critical |-> 95]
  /\ now = 0 /\ inputs = 0
  /\ drawn = now

(* Every change of a source or a setting ends in a rebuild: connectProvider *)
(* and connectTool listen to all the signals.                              *)
Change(w) == world' = w /\ drawn' = now /\ UNCHANGED now

Input(w) == inputs < MaxInputs /\ inputs' = inputs + 1 /\ Change(w)

(* A refresh begins: setLoading and clearError.                            *)
Begin(p) ==
  /\ ~world.backends[p].loading
  /\ Input([world EXCEPT !.backends[p].loading = TRUE, !.backends[p].state = "Refreshing",
                         !.backends[p].error = "None"])

(* It ends, with a report or an error (openaicompatibleprovider.cpp); both *)
(* count as the last success, from which the scheduler counts on.          *)
Finish(p, b) ==
  /\ world.backends[p].loading
  /\ Change([world EXCEPT !.backends[p] =
               [b EXCEPT !.loading = FALSE, !.lastSuccess = now, !.next = now + Interval(p)]])
  /\ UNCHANGED inputs

Report(p) ==
  \E kind \in ReportKinds :
    LET b == world.backends[p]
    IN /\ kind = "estimated" => b.billed = 0
       /\ Finish(p, [b EXCEPT !.metrics = SetMetrics(@, Reported(kind)),
                              !.connected = TRUE, !.state = "Healthy",
                              !.billed = IF kind = "billed" THEN 9 ELSE @])

Fail(p) ==
  \E error \in {"Network", "Authentication"} :
    Finish(p, [world.backends[p] EXCEPT !.error = error, !.connected = FALSE,
                                        !.state = "Failed"])

UseTool ==
  \E t \in {[world.tool EXCEPT !.windows = Synced(kind), !.synced = now, !.diagnostic = "",
                               !.spent = IF kind = "used up" THEN 4 ELSE @] :
              kind \in SyncKinds}
          \cup {[world.tool EXCEPT !.diagnostic = d] : d \in {"network_error", "session_expired"}}
          \cup {[world.tool EXCEPT !.activity = now, !.used = TRUE],
                [world.tool EXCEPT !.used = TRUE],
                [world.tool EXCEPT !.watch = IF @ = "" THEN "watch_unavailable" ELSE ""],
                [world.tool EXCEPT !.installed = ~@]} :
    Input([world EXCEPT !.tool = t])

(* setWarningThreshold and setCriticalThreshold: each drags the other.     *)
SetWarning ==
  \E t \in {60, 98} \ {world.warning} :
    Input([world EXCEPT !.warning = t, !.critical = Max({t, @})])
SetCritical ==
  \E t \in {50, 85} \ {world.critical} :
    Input([world EXCEPT !.critical = t, !.warning = Min({t, @})])

SetSourceEnabled ==
  \E id \in Sources : Input([world EXCEPT !.enabled = SymDiff(@, {id})])

Tick ==
  /\ now < MaxTime
  /\ now' = now + 1
  /\ UNCHANGED <<world, inputs, drawn>>

(* Mutant: the timer leaves rows that are shown as they are.               *)
PresentUnlessShown == world.enabled = {} /\ drawn' = now /\ UNCHANGED <<world, now, inputs>>

(* m_presentationTimer *)
Present == drawn' = now /\ UNCHANGED <<world, now, inputs>>

Finishing == \E p \in Providers : Report(p) \/ Fail(p)

Next ==
  \/ \E p \in Providers : Begin(p)
  \/ Finishing
  \/ UseTool \/ SetWarning \/ SetCritical \/ SetSourceEnabled
  \/ Tick \/ Present

Spec == Init /\ [][Next]_vars

-----------------------------------------------------------------------------
(* Properties *)

(* No quota of the rows is older than its source allows, or past its       *)
(* reset, at the time they are drawn for (providerbackend.cpp, metricsAt). *)
NothingOldCounts ==
  \A row \in Range(Rows) : \A q \in row.quotas :
    /\ q.observed <= drawn
    /\ drawn - q.observed <
         (IF row.id = Tool THEN FreshFor ELSE Max({FreshFor, Interval(row.id) + Grace}))
    /\ q.reset # Never => q.reset > drawn

(* The list is sorted by severity, so its first row is the one that the    *)
(* summary calls the most urgent (rebuild and buildSummary).               *)
MostUrgentFirst ==
  LET rows == Rows
      summary == Summary(rows, drawn)
  IN /\ \A i, j \in DOMAIN rows :
          i < j => SeverityRank[rows[i].severity] >= SeverityRank[rows[j].severity]
     /\ summary.highestSeverity = SeverityRank[summary.mostUrgent]

(* The spend of the summary is what the enabled sources report, each cost  *)
(* once: the groups of a currency and quality add up to it, and of one     *)
(* provider a bill and an estimate are never both counted                  *)
(* (spendGroupsForRows and setProviderMetric).                             *)
SpendIsConserved ==
  LET rows == Range(Rows)
      spend == Spend(rows)
      of(c, quality) ==
        {e \in spend : e.metric.currency = c /\ SpendQuality(e.metric) = quality}
      groups(c, quality) == {g \in SpendGroups(rows) : g.currency = c /\ g.quality = quality}
  IN /\ \A c \in {"USD", "EUR"}, quality \in {"actual", "estimated"} :
          SumFunction([e \in of(c, quality) |-> e.metric.value])
            = SumFunction([g \in groups(c, quality) |-> g.value])
     /\ \A d, e \in spend :
          d.id = e.id => SpendQuality(d.metric) = SpendQuality(e.metric)

DailyStateIsSound == NothingOldCounts /\ MostUrgentFirst /\ SpendIsConserved

(* Once nothing changes any more the rows are those of the time, so that   *)
(* what has grown old is withdrawn, though no source says so               *)
(* (m_presentationTimer).                                                  *)
IsOfNow == drawn = now
OldIsWithdrawn == <>[]IsOfNow
=============================================================================
