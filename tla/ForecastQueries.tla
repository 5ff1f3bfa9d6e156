-------------------------- MODULE ForecastQueries --------------------------
(***************************************************************************)
(* The forecasts of budgets and quotas: how plugin/guardrailmodel.cpp      *)
(* queries them on worker threads and caches the answers, and how          *)
(* RuntimeCoordinator.qml asks again when an observation or a policy       *)
(* changed.                                                                *)
(*                                                                         *)
(* A worker reads the history entry by entry on a connection of its own,   *)
(* while the plasmoid records and prunes.  A new request cancels the       *)
(* workers before it, which notice it between two entries, if at all.      *)
(***************************************************************************)
EXTENDS Naturals, Sequences, FiniteSets, SequencesExt

CONSTANTS
  MaxCached,     \* answers the cache holds: 16
  Threads,       \* threads of the pool that runs the workers
  MaxChanges,    \* bound: changes of the history and of the policies
  MaxPeriods,    \* bound: budget periods that end
  MaxRequests    \* bound: requests of the user, switches of the forecasts

ASSUME QueriesAssumption ==
  /\ {MaxCached, Threads} \subseteq Nat \ {0}
  /\ {MaxChanges, MaxPeriods, MaxRequests} \subseteq Nat

VARIABLES
  enabled,     \* forecastUiEnabled
  stored,      \* version of the history on disk
  pruning,     \* a prune has changed the history and is not reported yet
  told,        \* version when observationsChanged was last emitted
  revision,    \* observationRevision
  policies,    \* BudgetPolicyRuntime.revision
  period,      \* the clock, in budget periods
  timer,       \* guardrailRefreshTimer runs
  requests,    \* requests so far
  generation,  \* m_generation
  work,        \* m_work, by generation
  cache,       \* m_cache
  cacheOrder,  \* m_cacheOrder
  shown        \* m_forecasts and the generation they were completed for

outside == <<enabled, stored, pruning, told, revision, policies, period, requests>>
model == <<generation, work, cache, cacheOrder, shown>>
vars == <<outside, timer, model>>

(* A query that asks for nothing, and the one of the present revisions.    *)
Nothing == [policies |-> 0, revision |-> 0]

(* Mutant: the revision of the history is not part of the query.           *)
QueryWithoutRevision ==
  IF enabled THEN [policies |-> policies, revision |-> 1] ELSE Nothing

(* buildGuardrailQuery                                                     *)
Query ==
  IF enabled THEN [policies |-> policies, revision |-> revision] ELSE Nothing

(* An answer: the oldest version it was read from, whether every entry     *)
(* could be read, and the period it was computed for.                      *)
Answer(query, since, known, at) ==
  [query |-> query, since |-> since, known |-> known, at |-> at]

Init ==
  /\ enabled = TRUE /\ stored = 0 /\ pruning = FALSE /\ told = 0
  /\ revision = 1 /\ policies = 1 /\ period = 0 /\ requests = 0
  /\ timer = TRUE /\ generation = 0
  /\ work = <<>> /\ cache = <<>> /\ cacheOrder = <<>>
  /\ shown = [generation |-> 0, answer |-> Answer(Nothing, 0, TRUE, 0)]

Changes == stored + policies - 1

-----------------------------------------------------------------------------
(* What asks for forecasts *)

(* A record commits and emits observationsChanged in one turn of the loop. *)
Record ==
  /\ Changes < MaxChanges
  /\ stored' = stored + 1 /\ told' = stored + 1
  /\ revision' = revision + 1
  /\ cache' = <<>> /\ cacheOrder' = <<>>
  /\ timer' = TRUE
  /\ UNCHANGED <<enabled, pruning, policies, period, requests,
                 generation, work, shown>>

(* A prune changes the history on a worker thread ...                      *)
Prune ==
  /\ Changes < MaxChanges /\ ~pruning
  /\ stored' = stored + 1 /\ pruning' = TRUE
  /\ UNCHANGED <<enabled, told, revision, policies, period, requests, timer, model>>

(* ... and is reported when the event loop gets to it.                     *)
PruneReported ==
  /\ pruning
  /\ pruning' = FALSE /\ told' = stored
  /\ revision' = revision + 1
  /\ cache' = <<>> /\ cacheOrder' = <<>>
  /\ timer' = TRUE
  /\ UNCHANGED <<enabled, stored, policies, period, requests,
                 generation, work, shown>>

(* onRevisionChanged of the policies                                       *)
PolicyChanged ==
  /\ Changes < MaxChanges
  /\ policies' = policies + 1
  /\ cache' = <<>> /\ cacheOrder' = <<>>
  /\ timer' = TRUE
  /\ UNCHANGED <<enabled, stored, pruning, told, revision, period, requests,
                 generation, work, shown>>

(* onForecastUiEnabledChanged                                              *)
SwitchForecasts ==
  /\ requests < MaxRequests
  /\ requests' = requests + 1
  /\ enabled' = ~enabled /\ timer' = TRUE
  /\ UNCHANGED <<stored, pruning, told, revision, policies, period, model>>

(* refreshGuardrails of the monitor: Refresh on the Insights page          *)
UserRefresh ==
  /\ requests < MaxRequests
  /\ requests' = requests + 1 /\ timer' = TRUE
  /\ UNCHANGED <<enabled, stored, pruning, told, revision, policies, period, model>>

PeriodEnds ==
  /\ period < MaxPeriods
  /\ period' = period + 1
  /\ UNCHANGED <<enabled, stored, pruning, told, revision, policies, requests,
                 timer, model>>

-----------------------------------------------------------------------------
(* The model and its workers *)

Cancelled == [g \in DOMAIN work |-> [work[g] EXCEPT !.cancelled = TRUE]]

(* start, when guardrailRefreshTimer fires                                 *)
Start ==
  /\ timer /\ timer' = FALSE
  /\ generation' = generation + 1
  /\ IF Query \in DOMAIN cache
     THEN /\ shown' = [generation |-> generation + 1, answer |-> cache[Query]]
          /\ work' = Cancelled
     ELSE /\ work' = [g \in DOMAIN work \union {generation + 1} |->
                        IF g \in DOMAIN work THEN Cancelled[g]
                        ELSE [query |-> Query, cancelled |-> FALSE, left |-> 3,
                              answer |-> Answer(Query, 0, TRUE, 0)]]
          /\ UNCHANGED shown
  /\ UNCHANGED <<outside, cache, cacheOrder>>

Waiting == {g \in DOMAIN work : work[g].left = 3}
Running == {g \in DOMAIN work : work[g].left \in {1, 2}}

(* execute: a free thread of the pool takes up the request that waits      *)
(* longest; a query that asks for nothing, or was cancelled already, reads *)
(* nothing.                                                                *)
Execute(g) ==
  /\ g \in Waiting /\ \A h \in Waiting : g <= h
  /\ Cardinality(Running) < Threads
  /\ work' = [work EXCEPT
       ![g].left = IF work[g].cancelled \/ work[g].query = Nothing THEN 0 ELSE 2,
       ![g].answer = Answer(work[g].query, stored, TRUE, period)]
  /\ UNCHANGED <<outside, timer, generation, cache, cacheOrder, shown>>

(* queryDatabase: the next entry, unless the request was cancelled         *)
ReadEntry(g) ==
  /\ g \in Running
  /\ \/ /\ work[g].cancelled
        /\ work' = [work EXCEPT ![g].left = 0]
     \/ /\ ~work[g].cancelled
        /\ \E known \in BOOLEAN :
             work' = [work EXCEPT ![g].left = @ - 1,
                                  ![g].answer.known = @ /\ known]
  /\ UNCHANGED <<outside, timer, generation, cache, cacheOrder, shown>>

(* Mutant: what a worker found is shown, whoever asked since.              *)
FinishAnyway(g) ==
  /\ work[g].left = 0
  /\ shown' = [generation |-> g, answer |-> work[g].answer]
  /\ work' = Restrict(work, DOMAIN work \ {g})
  /\ UNCHANGED <<outside, timer, generation, cache, cacheOrder>>

(* finish: the answer of the last request is shown and cached; any other   *)
(* is dropped.                                                             *)
Finish(g) ==
  /\ work[g].left = 0
  /\ IF g = generation /\ ~work[g].cancelled
     THEN LET query == work[g].query
              others == IF query \in DOMAIN cache THEN Remove(cacheOrder, query) ELSE cacheOrder
              order == Append(others, query)
              evicted == IF Len(order) > MaxCached THEN {Head(order)} ELSE {}
          IN /\ shown' = [generation |-> g, answer |-> work[g].answer]
             /\ cacheOrder' = IF evicted = {} THEN order ELSE Tail(order)
             /\ cache' = [q \in (DOMAIN cache \union {query}) \ evicted |->
                            IF q = query THEN work[g].answer ELSE cache[q]]
     ELSE UNCHANGED <<shown, cache, cacheOrder>>
  /\ work' = Restrict(work, DOMAIN work \ {g})
  /\ UNCHANGED <<outside, timer, generation>>

Workers == \E g \in DOMAIN work : Execute(g) \/ ReadEntry(g) \/ Finish(g)

Next ==
  \/ Record \/ Prune \/ PruneReported \/ PolicyChanged
  \/ SwitchForecasts \/ UserRefresh \/ PeriodEnds
  \/ Start \/ Workers

Spec == Init /\ [][Next]_vars

(* The event loop runs the timer and delivers what threads report, and the *)
(* pool runs every worker.                                                 *)
Fairness == WF_vars(PruneReported) /\ WF_vars(Start) /\ WF_vars(Workers)

FairSpec == Spec /\ Fairness

-----------------------------------------------------------------------------
(* Properties *)

Queries == [policies : Nat, revision : Nat]
Answers == [query : Queries, since : Nat, known : BOOLEAN, at : Nat]

(* Types; the order of the cache lists every answer it holds once, and no  *)
(* more of them than it may hold (guardrailmodel.cpp, m_cacheOrder).       *)
TypeOK ==
  /\ {enabled, pruning, timer} \subseteq BOOLEAN
  /\ {stored, told, revision, policies, period, requests, generation} \subseteq Nat
  /\ \A g \in DOMAIN work :
       /\ g \in 1 .. generation
       /\ work[g] \in [query : Queries, cancelled : BOOLEAN, left : 0 .. 3,
                       answer : Answers]
  /\ shown \in [generation : 0 .. generation, answer : Answers]
  /\ cacheOrder \in Seq(Queries) /\ Len(cacheOrder) <= MaxCached
  /\ IsInjective(cacheOrder)
  /\ DOMAIN cache = ToSet(cacheOrder)
  /\ Range(cache) \subseteq Answers

(* At most one worker is not cancelled, and it is the one of the last      *)
(* request: the forecasts a superseded worker finds are never waited for.  *)
OneAsked == \A g \in DOMAIN work : work[g].cancelled \/ g = generation

(* The next request is never answered from an older history than the last  *)
(* change the plasmoid was told of, however its worker and the change were *)
(* interleaved (cacheKey, invalidateCache).                                *)
ServesNothingOld ==
  enabled /\ Query \in DOMAIN cache =>
    /\ cache[Query].since >= told
    /\ cache[Query].query = Query

(* At most one forecast worker is waited for, and no request is answered   *)
(* from a history older than the last change the plasmoid was told of      *)
(* (guardrailmodel.cpp, start and invalidateCache).                        *)
ForecastsAreCurrent == TypeOK /\ OneAsked /\ ServesNothingOld

(* The forecasts shown never go back to an older history or policy, though *)
(* workers finish in any order (finish).                                   *)
NeverBack ==
  [][shown.answer.query # Nothing /\ shown'.answer.query # Nothing =>
       /\ shown'.answer.since >= shown.answer.since
       /\ shown'.answer.query.policies >= shown.answer.query.policies]_vars

(* Once nothing changes any more, the forecasts shown are those of the     *)
(* last history, policies and switch, and no worker is left               *)
(* (RuntimeCoordinator.qml, guardrailRefreshTimer).                        *)
Settled ==
  /\ work = <<>>
  /\ shown.answer.query = Query
  /\ enabled => shown.answer.since = stored
Settles == <>[]Settled
=============================================================================
