---------------------------- MODULE SourceState ----------------------------
(***************************************************************************)
(* What one monitored source looks like: whether it is ready               *)
(* (plugin/sourcereadinessmodel.cpp) and its row of the daily state        *)
(* (plugin/dailystatemodel.cpp), computed from its backend and the clock.  *)
(*                                                                         *)
(* A backend is a record with the fields of plugin/providerbackend.h, a    *)
(* tool one with those of plugin/subscriptiontoolbackend.h, that the two   *)
(* models read.  A metric is a record with the fields the models compare.  *)
(* Time goes in units of five minutes.                                     *)
(***************************************************************************)
EXTENDS Integers, Sequences, SequencesExt, FiniteSetsExt

Never == -1          \* an invalid QDateTime
NoQuota == 101       \* the sort key of a row without percentRemaining
NoBudget == -1

AgingFrom == 1       \* 300 s
FreshFor == 3        \* 900 s
Grace == 1           \* kRefreshCompletionGraceSeconds

ActualSources ==
  {"billing_api", "usage_api", "actual_api", "metrics_api", "response_headers",
   "browser_sync", "antigravity_local", "local_daemon_actual"}
EstimatedSources ==
  {"estimated_pricing", "estimated_from_usage", "local_observation", "self_tracked"}

-----------------------------------------------------------------------------
(* Freshness *)

(* freshnessMaxAgeSeconds: a source that is asked rarely may be older.     *)
FreshnessMaxAge(b) ==
  IF Never \in {b.lastSuccess, b.next} \/ b.next <= b.lastSuccess
  THEN FreshFor
  ELSE Max({FreshFor, b.next - b.lastSuccess + Grace})

Old(m, now, maxAge) == m.observed > now \/ now - m.observed >= maxAge

(* Mutant: a value outlives the reset of its window.                       *)
MetricStateByAge(m, now, maxAge) ==
  IF m.observed = Never THEN "never_observed"
  ELSE IF Old(m, now, maxAge) THEN "stale" ELSE "fresh"

MetricState(m, now, maxAge) ==
  IF m.observed = Never THEN "never_observed"
  ELSE IF m.reset # Never /\ m.reset <= now THEN "awaiting_refresh"
  ELSE IF Old(m, now, maxAge) THEN "stale" ELSE "fresh"

(* metricsAt: a value that is not fresh is withdrawn.                      *)
MetricsAt(ms, now, maxAge) ==
  [i \in DOMAIN ms |->
     [ms[i] EXCEPT !.available = @ /\ MetricState(ms[i], now, maxAge) = "fresh"]]

Recent(at, now) == at # Never /\ at <= now /\ now - at < FreshFor

-----------------------------------------------------------------------------
(* Readiness *)

Verdict(state, code) == [state |-> state, code |-> code]

(* snapshotFor: what kind of error becomes, with or without an earlier     *)
(* success.                                                                *)
UserErrors == [Configuration |-> "configuration", Authentication |-> "authentication",
               Permission |-> "permission"]
OtherErrors == [Unsupported |-> "unsupported_metric", Schema |-> "schema",
                Network |-> "network", Timeout |-> "timeout", RateLimit |-> "rate_limit",
                Server |-> "server", Cancelled |-> "cancelled"]

ErrorVerdict(b) ==
  IF b.error \in DOMAIN UserErrors
  THEN Verdict(IF b.error = "Configuration" THEN "needs_configuration" ELSE "failed",
               UserErrors[b.error])
  ELSE Verdict(IF b.lastSuccess # Never THEN "degraded" ELSE "failed", OtherErrors[b.error])

(* A connected provider without an error is what its fresh metrics make    *)
(* it; here fresh always means fifteen minutes.                            *)
DataVerdict(b, now) ==
  LET offered == {m \in Range(b.metrics) : m.available}
      fresh == {m \in offered : MetricState(m, now, FreshFor) = "fresh"}
      actual == \E m \in fresh : m.source \in ActualSources
      estimate == \E m \in fresh : m.source \in EstimatedSources
  IN IF actual THEN Verdict("reporting_actual", "")
     ELSE IF estimate THEN Verdict("reporting_estimate", "")
     ELSE IF offered # fresh THEN Verdict("degraded", "stale")
     ELSE Verdict("connected_connectivity_only", "")

ProviderReadiness(b, now) ==
  IF b.loading \/ b.state = "Refreshing" THEN Verdict("verifying", "")
  ELSE IF b.error # "None" THEN ErrorVerdict(b)
  ELSE IF b.state = "Stale" \/ (b.lastSuccess # Never /\ now - b.lastSuccess >= FreshFor)
       THEN Verdict("degraded", "stale")
  ELSE IF b.state = "Degraded" THEN Verdict("degraded", "degraded")
  ELSE IF b.state = "Failed" THEN Verdict("failed", "failed")
  ELSE IF ~b.hasKey THEN Verdict("needs_configuration", "")
  ELSE IF ~b.connected THEN Verdict("ready_to_verify", "")
  ELSE DataVerdict(b, now)

AuthenticatedQuota(w) == w.source \in {"browser_sync", "antigravity_local"}

(* quotaWindowsAt: of a window the tool was told or estimates itself.      *)
WindowsAt(ws, now) ==
  [i \in DOMAIN ws |->
     IF AuthenticatedQuota(ws[i]) \/ ws[i].source = "local_activity"
     THEN [ws[i] EXCEPT !.available = @ /\ MetricState(ws[i], now, FreshFor) = "fresh"]
     ELSE ws[i]]

HasFreshQuota(t, now) ==
  \E w \in Range(WindowsAt(t.windows, now)) : AuthenticatedQuota(w) /\ w.available
LastQuotaObservation(t) ==
  Max({w.observed : w \in {v \in Range(t.windows) : AuthenticatedQuota(v)}} \cup {Never})

ToolReadiness(t, now) ==
  IF ~t.installed THEN Verdict("unavailable_locally", "")
  ELSE IF t.syncing THEN Verdict("verifying", "")
  ELSE IF t.watch # "" THEN Verdict("degraded", t.watch)
  ELSE IF t.diagnostic # ""
       THEN IF /\ t.diagnostic \in {"network_error", "tls_error", "timeout"}
               /\ Max({t.synced, t.activity}) # Never
            THEN Verdict("degraded", t.diagnostic)
            ELSE Verdict("failed", t.diagnostic)
  ELSE IF HasFreshQuota(t, now) THEN Verdict("reporting_actual", "")
  ELSE IF LastQuotaObservation(t) # Never THEN Verdict("degraded", "")
  ELSE IF t.activity # Never
       THEN IF Recent(t.activity, now) THEN Verdict("reporting_estimate", "")
                                       ELSE Verdict("degraded", "stale")
  ELSE IF t.used THEN Verdict("degraded", "stale")
  ELSE Verdict("waiting_for_activity", "")

-----------------------------------------------------------------------------
(* Quota windows *)

SourceClass(source) ==
  CASE source \in ActualSources -> "actual"
    [] source \in EstimatedSources \cup {"user_config", "local_activity"} -> "local_estimate"
    [] source = "published_documentation" -> "configured_limit"
    [] OTHER -> "unknown"

LimitKind(kind) == IF kind = "request_remaining" THEN "request_limit" ELSE "token_limit"

(* The limit a remaining amount is a share of: the first of its scope and  *)
(* window.                                                                 *)
Limits(ms, i) ==
  {j \in DOMAIN ms : /\ ms[j].kind = LimitKind(ms[i].kind)
                     /\ ms[j].scope = ms[i].scope /\ ms[j].window = ms[i].window
                     /\ ms[j].available}
Limit(ms, i) == ms[Min(Limits(ms, i))]

Share(ms, i) == (ms[i].value * 100) \div Limit(ms, i).value

Counted(ms) ==
  {i \in DOMAIN ms : /\ ms[i].kind \in {"request_remaining", "token_remaining"}
                     /\ ms[i].available
                     /\ Limits(ms, i) # {}
                     /\ Limit(ms, i).value > 0
                     /\ Share(ms, i) \in 0 .. 100}

PairClass(source, limitSource) ==
  CASE {source, limitSource} \subseteq ActualSources -> "actual"
    [] {source, limitSource} \cap EstimatedSources # {} -> "local_estimate"
    [] OTHER -> SourceClass(limitSource)

Quota(m, remaining, class) ==
  [kind |-> m.kind, window |-> m.window, remaining |-> remaining, reset |-> m.reset,
   class |-> class, observed |-> m.observed]

(* Of the windows of one kind, name and class the first counts.            *)
FirstOfKind(qs, S) ==
  LET key(i) == <<qs[i].kind, qs[i].window, qs[i].class>>
  IN {i \in S : \A j \in S : j < i => key(j) # key(i)}

ProviderQuotas(ms) ==
  LET qs == [i \in Counted(ms) |->
               Quota(ms[i], Share(ms, i), PairClass(ms[i].source, Limit(ms, i).source))]
  IN {qs[i] : i \in FirstOfKind(qs, DOMAIN qs)}

ToolQuotas(ws) ==
  LET told == {i \in DOMAIN ws : /\ ws[i].available
                                 /\ ws[i].precision # "availability_only"
                                 /\ ws[i].value \in 0 .. 100}
      qs == [i \in told |-> Quota(ws[i], ws[i].value, SourceClass(ws[i].source))]
  IN {qs[i] : i \in FirstOfKind(qs, told)}

(* betterQuota: the scarcer one, then the one that resets first.           *)
Better(q, r) ==
  \/ q.remaining < r.remaining
  \/ /\ q.remaining = r.remaining
     /\ q.reset # Never /\ (r.reset = Never \/ q.reset < r.reset)

NoneBetter(qs) == {q \in qs : \A r \in qs : ~Better(r, q)}
BestQuota(qs) == CHOOSE q \in NoneBetter(qs) : TRUE
ActualQuotas(qs) == {q \in qs : q.class = "actual"}

-----------------------------------------------------------------------------
(* Attention *)

Failing == {"failed", "needs_configuration", "unavailable_locally", "degraded"}

(* finalizeRow: whether the row is old, and the first reason that holds    *)
(* makes its place in the list.                                            *)
IsStale(row) == row.freshness = "stale" \/ row.code = "stale"

Reason(priority, severity, reason) ==
  [priority |-> priority, severity |-> severity, reason |-> reason]

Attention(row, warning, critical) ==
  LET stale == IsStale(row)
      quota == row.remaining # NoQuota
      budget == row.budget # NoBudget
  IN IF ~stale /\ row.readiness \in Failing
     THEN Reason(1, "critical", IF row.code = "" THEN row.readiness ELSE row.code)
     ELSE IF ~stale /\ quota /\ row.remaining <= 0
     THEN Reason(2, "critical", "quota_exhausted")
     ELSE IF ~stale /\ quota /\ row.remaining <= 100 - critical
     THEN Reason(3, "critical", "quota_critical")
     ELSE IF ~stale /\ budget /\ row.budget >= 100
     THEN Reason(4, "critical", "budget_critical")
     ELSE IF stale
     THEN Reason(6, "warning", "stale_data")
     ELSE IF budget /\ row.budget >= warning
     THEN Reason(7, "warning", "budget_warning")
     ELSE IF quota /\ 100 - row.remaining >= warning
     THEN Reason(7, "warning", "quota_warning")
     ELSE IF row.readiness = "ready_to_verify"
     THEN Reason(8, "info", "ready_to_verify")
     ELSE Reason(10, "none", "none")

(* Freshness of a provider's row.                                          *)
ProviderFreshness(b, now) ==
  LET maxAge == FreshnessMaxAge(b)
      states == {MetricState(m, now, maxAge) : m \in Range(b.metrics)}
      fresh == \E m \in Range(MetricsAt(b.metrics, now, maxAge)) : m.available
      old == states \cap {"stale", "awaiting_refresh"} # {}
  IN IF \/ b.lastSuccess > now
        \/ b.lastSuccess # Never /\ now - b.lastSuccess >= maxAge
        \/ ~fresh /\ old
     THEN "stale"
     ELSE IF b.lastSuccess # Never /\ now - b.lastSuccess >= AgingFrom THEN "aging"
     ELSE IF b.lastSuccess # Never \/ fresh THEN "fresh"
     ELSE "never"

ToolFreshness(t, now) ==
  IF HasFreshQuota(t, now) \/ Recent(t.activity, now) THEN "fresh"
  ELSE IF LastQuotaObservation(t) # Never \/ t.activity # Never THEN "stale"
  ELSE "never"
=============================================================================
