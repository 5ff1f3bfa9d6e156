-------------------------- MODULE ProviderRefresh --------------------------
(***************************************************************************)
(* The refresh of one provider: the lifecycle that every adapter inherits  *)
(* (plugin/providerbackend.cpp) and the paginated adapter with several     *)
(* endpoints (plugin/openaiprovider.cpp).                                  *)
(*                                                                         *)
(* A refresh starts one pagination per endpoint.  Replies and retry timers *)
(* come back on the UI thread in any order, after the refresh that sent    *)
(* them was superseded or its credential replaced, or not before then.     *)
(* A generation number tells the live ones from the stale ones.            *)
(***************************************************************************)
EXTENDS Integers, FiniteSets

CONSTANTS
  Endpoints,       \* usage, daily billing, monthly billing
  Keys,            \* credentials the user may store
  NoKey,           \* no credential
  PageLimit,       \* MAX_LOGICAL_PAGE_REQUESTS, shared by the endpoints
  MaxRetries,      \* retries of one page request
  MaxGenerations   \* bound: the last generation modelled

ASSUME RefreshAssumption ==
  /\ IsFiniteSet(Endpoints)
  /\ Endpoints # {}
  /\ NoKey \notin Keys
  /\ PageLimit \in Nat
  /\ Cardinality(Endpoints) <= PageLimit
  /\ MaxRetries \in Nat
  /\ MaxGenerations \in Nat

Automatic == {"Scheduled", "PopupOpened", "Retry"}
Reasons == Automatic \cup {"Startup", "Manual", "ConfigurationChanged", "CredentialChanged"}
UserAction == {"Authentication", "Permission", "Configuration", "Schema"}
ErrorKinds == UserAction \cup {"None", "Server", "Network"}
Generations == 0 .. MaxGenerations

(* A page request, or the timer that will repeat it: retry counts the      *)
(* repetitions.                                                            *)
Call == [gen : Generations, ep : Endpoints, key : Keys,
         retry : 0 .. MaxRetries, timer : BOOLEAN]

VARIABLES
  key, generation, loading,
  errorKind, hold,      \* hold: Retry-After lies in the future
  lastReason,
  open, owner,          \* per pagination: pending, and its generation
  count, pages,         \* m_pendingRequests, m_logicalPageRequests
  capability,           \* per endpoint: its status in this refresh
  problem,              \* per endpoint: the kind of its last diagnostic
  data,                 \* per endpoint: the credential its data came with
  calls

outcome == <<errorKind, hold, open, count, capability, problem, data, loading>>
vars == <<key, generation, owner, pages, lastReason, outcome, calls>>

Init ==
  /\ key \in Keys \cup {NoKey}
  /\ generation = 0
  /\ loading = FALSE
  /\ errorKind = "None"
  /\ hold = FALSE
  /\ lastReason = "Startup"
  /\ open = [e \in Endpoints |-> FALSE]
  /\ owner = [e \in Endpoints |-> 0]
  /\ count = 0
  /\ pages = 0
  /\ capability = [e \in Endpoints |-> "none"]
  /\ problem = [e \in Endpoints |-> "None"]
  /\ data = [e \in Endpoints |-> NoKey]
  /\ calls = {}

-----------------------------------------------------------------------------
(* Starting, superseding and cancelling *)

(* The abort loop runs over m_activeReplies while abort() removes finished *)
(* replies from it, so it may pass over any of them.  Those run on, as the *)
(* retry timers do.                                                        *)
AfterAbort == {left \in SUBSET calls : {c \in calls : c.timer} \subseteq left}

Request(e, gen) ==
  [gen |-> gen, ep |-> e, key |-> key, retry |-> 0, timer |-> FALSE]

(* requestRefresh refuses: the user must act first, the server asked to    *)
(* wait, or a refresh is under way and this one is not manual.             *)
Refused(reason) ==
  \/ reason \in Automatic /\ errorKind \in UserAction
  \/ hold
  \/ loading /\ reason # "Manual"

(* refreshImpl with a credential: cancel what runs, begin a generation and *)
(* ask every endpoint for its first page.                                  *)
Refresh(reason) ==
  /\ ~Refused(reason)
  /\ key # NoKey
  /\ generation' = IF loading THEN generation + 2 ELSE generation + 1
  /\ generation' <= MaxGenerations
  /\ \E left \in AfterAbort :
       calls' = left \cup {Request(e, generation') : e \in Endpoints}
  /\ loading' = TRUE
  /\ errorKind' = "None"
  /\ hold' = FALSE
  /\ lastReason' = reason
  /\ open' = [e \in Endpoints |-> TRUE]
  /\ owner' = [e \in Endpoints |-> generation']
  /\ count' = Cardinality(Endpoints)
  /\ pages' = Cardinality(Endpoints)
  /\ capability' = [e \in Endpoints |-> "pending"]
  /\ problem' = [e \in Endpoints |-> "None"]
  /\ UNCHANGED <<key, data>>

(* refreshImpl without a credential.                                       *)
RefreshWithoutKey(reason) ==
  /\ ~Refused(reason)
  /\ key = NoKey
  /\ errorKind' = "Configuration"
  /\ hold' = FALSE
  /\ UNCHANGED <<key, generation, loading, lastReason, open, owner, count, pages,
                 capability, problem, data, calls>>

(* Mutant: the credential is replaced under the refresh that runs.         *)
SetApiKeyInPlace(k) ==
  /\ k # key
  /\ key' = k
  /\ UNCHANGED <<generation, owner, pages, lastReason, outcome, calls>>

(* Mutant: the cancelled refresh keeps its loading state.                  *)
SetApiKeyStillLoading(k) ==
  /\ k # key
  /\ key' = k
  /\ generation < MaxGenerations
  /\ generation' = generation + 1
  /\ calls' \in AfterAbort
  /\ UNCHANGED <<owner, pages, lastReason, outcome>>

(* setApiKey: a different credential cancels the refresh under way.  The   *)
(* paginations stay pending under the generation that is gone.             *)
SetApiKey(k) ==
  /\ k # key
  /\ key' = k
  /\ generation < MaxGenerations
  /\ generation' = generation + 1
  /\ calls' \in AfterAbort
  /\ loading' = FALSE
  /\ UNCHANGED <<errorKind, hold, lastReason, open, owner, count, pages,
                 capability, problem, data>>

(* The moment named by Retry-After passes.                                 *)
RetryAfterPasses ==
  /\ hold
  /\ hold' = FALSE
  /\ UNCHANGED <<key, generation, loading, errorKind, lastReason, open, owner,
                 count, pages, capability, problem, data, calls>>

-----------------------------------------------------------------------------
(* Replies and retry timers *)

(* Mutant: the handler looks only at the pending flag.                     *)
LiveAnyGeneration(c) == open[c.ep]

Live(c) == c.gen = generation /\ open[c.ep] /\ owner[c.ep] = generation

(* A reply or a timer of an earlier generation does nothing.               *)
StaleReturns(c) ==
  /\ ~Live(c)
  /\ calls' = calls \ {c}
  /\ UNCHANGED <<key, generation, owner, pages, lastReason, outcome>>

(* Mutant: the counter is off by one when the last pagination is awaited.  *)
FinishEarly(e) ==
  /\ open' = [open EXCEPT ![e] = FALSE]
  /\ count' = count - 1
  /\ loading' = (loading /\ count' > 1)

(* finishPagination and checkAllDone.                                      *)
Finish(e) ==
  /\ open' = [open EXCEPT ![e] = FALSE]
  /\ count' = count - 1
  /\ loading' = (loading /\ count' > 0)

Succeed(c) ==
  /\ Live(c)
  /\ ~c.timer
  /\ Finish(c.ep)
  /\ data' = [data EXCEPT ![c.ep] = c.key]
  /\ capability' = [capability EXCEPT ![c.ep] = "available"]
  /\ calls' = calls \ {c}
  /\ UNCHANGED <<key, generation, owner, pages, lastReason, errorKind, hold, problem>>

(* The error of the endpoint replaces the provider's.                      *)
Fails(c, kind, retryAfter) ==
  /\ Finish(c.ep)
  /\ errorKind' = kind
  /\ hold' = retryAfter
  /\ capability' = [capability EXCEPT ![c.ep] =
                      IF data[c.ep] = NoKey THEN "failed" ELSE "stale"]
  /\ problem' = [problem EXCEPT ![c.ep] = kind]
  /\ calls' = calls \ {c}
  /\ UNCHANGED <<key, generation, owner, pages, lastReason, data>>

(* Not retried: refused (401, 403), no usable answer, or unreadable.       *)
FailAtOnce(c, kind, retryAfter) ==
  /\ Live(c)
  /\ ~c.timer
  /\ Fails(c, kind, retryAfter)

(* Mutant: the last retry's failure is not handed to the caller.           *)
BusyForgotten(c, retryAfter) ==
  /\ Live(c)
  /\ ~c.timer
  /\ IF c.retry < MaxRetries
     THEN calls' = (calls \ {c})
                     \cup {[c EXCEPT !.retry = c.retry + 1, !.timer = TRUE]}
     ELSE calls' = calls \ {c}
  /\ UNCHANGED <<key, generation, owner, pages, lastReason, outcome>>

(* A retryable status: wait and ask again, or give up after MaxRetries.    *)
Busy(c, retryAfter) ==
  /\ Live(c)
  /\ ~c.timer
  /\ IF c.retry < MaxRetries
     THEN /\ calls' = (calls \ {c})
                        \cup {[c EXCEPT !.retry = c.retry + 1, !.timer = TRUE]}
          /\ UNCHANGED <<key, generation, owner, pages, lastReason, outcome>>
     ELSE Fails(c, "Server", retryAfter)

RetryTimer(c) ==
  /\ Live(c)
  /\ c.timer
  /\ calls' = (calls \ {c}) \cup {[c EXCEPT !.timer = FALSE, !.key = key]}
  /\ UNCHANGED <<key, generation, owner, pages, lastReason, outcome>>

(* Mutant: pages are followed as long as the server names a next one.      *)
NextPageUnlimited(c) ==
  /\ Live(c)
  /\ ~c.timer
  /\ calls' = (calls \ {c}) \cup {Request(c.ep, generation)}
  /\ pages' = pages + 1
  /\ UNCHANGED <<key, generation, owner, lastReason, outcome>>

(* The page names a new cursor: ask for the next page, unless the refresh  *)
(* has used up its requests.                                               *)
NextPage(c) ==
  /\ Live(c)
  /\ ~c.timer
  /\ IF pages < PageLimit
     THEN /\ calls' = (calls \ {c}) \cup {Request(c.ep, generation)}
          /\ pages' = pages + 1
          /\ UNCHANGED <<key, generation, owner, lastReason, outcome>>
     ELSE Fails(c, "Schema", FALSE)

Returns(c) ==
  \/ StaleReturns(c)
  \/ Succeed(c)
  \/ \E retryAfter \in BOOLEAN :
       \/ FailAtOnce(c, "Authentication", retryAfter)
       \/ FailAtOnce(c, "Network", retryAfter)
       \/ Busy(c, retryAfter)
  \/ FailAtOnce(c, "Schema", FALSE)
  \/ RetryTimer(c)
  \/ NextPage(c)

Next ==
  \/ \E reason \in Reasons : Refresh(reason) \/ RefreshWithoutKey(reason)
  \/ \E k \in Keys \cup {NoKey} : SetApiKey(k)
  \/ RetryAfterPasses
  \/ \E c \in calls : Returns(c)

Spec == Init /\ [][Next]_vars

(* Every request ends by its transfer timeout and every timer fires.       *)
FairSpec == Spec /\ WF_vars(\E c \in calls : Returns(c))

-----------------------------------------------------------------------------
(* Properties *)

Pending(e) == open[e] /\ owner[e] = generation

CallsOf(e) == {c \in calls : c.ep = e /\ c.gen = generation}

(* Every variable stays in its domain: a refresh asks for PageLimit pages  *)
(* at most and repeats each at most MaxRetries times.                      *)
TypeOK ==
  /\ key \in Keys \cup {NoKey}
  /\ generation \in Generations
  /\ loading \in BOOLEAN
  /\ errorKind \in ErrorKinds
  /\ hold \in BOOLEAN
  /\ lastReason \in Reasons
  /\ open \in [Endpoints -> BOOLEAN]
  /\ owner \in [Endpoints -> Generations]
  /\ count \in 0 .. Cardinality(Endpoints)
  /\ pages \in 0 .. PageLimit
  /\ capability \in [Endpoints -> {"none", "pending", "available", "failed", "stale"}]
  /\ problem \in [Endpoints -> ErrorKinds]
  /\ data \in [Endpoints -> Keys \cup {NoKey}]
  /\ calls \subseteq Call

(* No refresh hangs or answers twice: a pending pagination has exactly one *)
(* request or retry timer of its generation, a finished one has none.      *)
OneCallPerPagination ==
  \A e \in Endpoints :
    IF Pending(e) THEN \E c \in calls : CallsOf(e) = {c} ELSE CallsOf(e) = {}

(* The provider is loading exactly while a pagination of the current       *)
(* generation is pending, and then the counter counts the pending ones.    *)
LoadingWhilePending ==
  /\ loading = (\E e \in Endpoints : Pending(e))
  /\ loading => count = Cardinality({e \in Endpoints : Pending(e)})

(* A reply to a request sent with another credential changes nothing but   *)
(* the list of calls: no data, no error that would block the new one.      *)
OtherCredentialIgnored ==
  [][\A c \in calls \ calls' :
       generation' = generation /\ c.key # key => UNCHANGED outcome]_vars

(* A refresh that completes has decided every endpoint: those available    *)
(* show data of the current credential, all others name their problem.     *)
CompletionStep ==
  loading /\ ~loading' /\ generation' = generation =>
    \A e \in Endpoints :
      IF capability'[e] = "available"
      THEN data'[e] = key
      ELSE capability'[e] \in {"failed", "stale"} /\ problem'[e] # "None"

CompletionDecidesAll == [][CompletionStep]_vars

(* An authentication or schema error of any endpoint waits for the user:   *)
(* no automatic refresh starts while the last one left such a problem.     *)
UserActionErrorsWait ==
  [][(\E e \in Endpoints : problem[e] \in UserAction)
       /\ generation' # generation /\ loading' => lastReason' \notin Automatic]_vars

(* Every refresh ends, superseded or complete, whatever the replies are.   *)
RefreshEnds ==
  \A g \in Generations : (loading /\ generation = g) ~> ~(loading /\ generation = g)

(* All that the views and the scheduler see of these requests, pages,      *)
(* retries and stale replies is a refresh that waits for one answer of     *)
(* each endpoint, shows figures of the current credential and ends.        *)
Promise == INSTANCE RefreshPromise WITH awaited <- {e \in Endpoints : Pending(e)}
KeepsPromise == Promise!FairSpec
=============================================================================
