----------------------- MODULE ProviderRefresh_proofs -----------------------
(***************************************************************************)
(* Proofs about ProviderRefresh for every set of endpoints and credentials *)
(* and every page, retry and generation limit.                             *)
(*                                                                         *)
(* RefreshInv speaks of the calls one by one where the property speaks of  *)
(* sets, and adds what makes it inductive: nothing carries a generation of *)
(* the future, live calls carry the current credential, and while loading  *)
(* every pagination belongs to the current generation.                     *)
(***************************************************************************)
EXTENDS ProviderRefresh, FiniteSetTheorems, TLAPS

(* Live calls and pending paginations match one to one.                    *)
Matched ==
  /\ \A c \in calls : c.gen = generation => Pending(c.ep) /\ c.key = key
  /\ \A c, d \in calls :
       c.gen = generation /\ d.gen = generation /\ c.ep = d.ep => c = d
  /\ \A e \in Endpoints :
       Pending(e) => \E c \in calls : c.ep = e /\ c.gen = generation

NoFuture ==
  /\ \A c \in calls : c.gen <= generation
  /\ \A e \in Endpoints : owner[e] <= generation

(* What the endpoints of the refresh under way show.                       *)
Progress ==
  loading =>
    /\ key # NoKey
    /\ \A e \in Endpoints :
         /\ owner[e] = generation
         /\ ~open[e] => IF capability[e] = "available" THEN data[e] = key
                        ELSE capability[e] \in {"failed", "stale"} /\ problem[e] # "None"

RefreshInv ==
  /\ TypeOK
  /\ Matched
  /\ NoFuture
  /\ Progress
  /\ LoadingWhilePending

USE DEF UserAction, ErrorKinds, Automatic, Reasons

LEMMA EndpointsCount ==
  /\ Cardinality(Endpoints) \in Nat
  /\ Cardinality(Endpoints) > 0
  /\ \A S \in SUBSET Endpoints : IsFiniteSet(S) /\ Cardinality(S) \in 0 .. Cardinality(Endpoints)
<1>1. Cardinality(Endpoints) \in Nat /\ Cardinality(Endpoints) # 0
  BY RefreshAssumption, FS_CardinalityType, FS_EmptySet
<1>2. ASSUME NEW S \in SUBSET Endpoints
      PROVE  IsFiniteSet(S) /\ Cardinality(S) \in 0 .. Cardinality(Endpoints)
  <2>1. IsFiniteSet(S) /\ Cardinality(S) <= Cardinality(Endpoints)
    BY RefreshAssumption, FS_Subset
  <2>2. Cardinality(S) \in Nat
    BY <2>1, FS_CardinalityType
  <2> QED BY <1>1, <2>1, <2>2
<1> QED BY <1>1, <1>2

(* The generations of the model are natural numbers.                       *)
LEMMA GenerationsNat == Generations \subseteq Int
  BY RefreshAssumption DEF Generations

LEMMA InitInv == Init => RefreshInv
<1> SUFFICES ASSUME Init PROVE RefreshInv
  OBVIOUS
<1>1. TypeOK
  <2>1. 0 \in Generations /\ 0 \in 0 .. Cardinality(Endpoints) /\ 0 \in 0 .. PageLimit
    BY RefreshAssumption, EndpointsCount DEF Generations
  <2> QED BY <2>1 DEF Init, TypeOK
<1>2. Matched /\ NoFuture /\ Progress
  BY DEF Init, Matched, NoFuture, Progress, Pending
<1>3. LoadingWhilePending
  BY DEF Init, LoadingWhilePending, Pending
<1> QED BY <1>1, <1>2, <1>3 DEF RefreshInv

(* A new generation has one call per endpoint, all with the credential of  *)
(* the moment; whatever the abort loop left belongs to earlier ones.       *)
LEMMA RefreshKeepsInv ==
  ASSUME RefreshInv, NEW reason \in Reasons, Refresh(reason)
  PROVE  RefreshInv'
<1> USE DEF RefreshInv
<1>1. generation' \in Generations /\ generation' > generation
  BY GenerationsNat, RefreshAssumption DEF Refresh, TypeOK, Generations
<1>2. PICK left \in AfterAbort :
        calls' = left \cup {Request(e, generation') : e \in Endpoints}
  BY DEF Refresh
<1>3. \A c \in left : c \in calls /\ c.gen < generation'
  BY <1>1, <1>2, GenerationsNat, RefreshAssumption
     DEF AfterAbort, NoFuture, TypeOK, Call, Generations
<1>4. \A e \in Endpoints :
        LET c == Request(e, generation')
        IN  c \in Call /\ c.ep = e /\ c.gen = generation' /\ c.key = key
  BY <1>1, RefreshAssumption DEF Request, Call, TypeOK, Refresh
<1>5. \A e \in Endpoints : Pending(e)'
  BY DEF Refresh, Pending
<1>6. TypeOK'
  <2>1. calls' \subseteq Call
    BY <1>2, <1>3, <1>4 DEF TypeOK
  <2>2. owner' \in [Endpoints -> Generations]
    BY <1>1 DEF Refresh
  <2>3. /\ Cardinality(Endpoints) \in 0 .. Cardinality(Endpoints)
        /\ Cardinality(Endpoints) \in 0 .. PageLimit
    BY EndpointsCount, RefreshAssumption
  <2> QED BY <1>1, <2>1, <2>2, <2>3 DEF Refresh, TypeOK
<1>7. Matched'
  <2>1. \A c \in calls' : c.gen = generation' =>
          \E e \in Endpoints : c = Request(e, generation')
    BY <1>1, <1>2, <1>3, GenerationsNat DEF TypeOK
  <2>2. key' = key
    BY DEF Refresh
  <2>3. \A c \in calls' : c.gen = generation' => Pending(c.ep)' /\ c.key = key'
    BY <1>4, <1>5, <2>1, <2>2
  <2>4. \A c, d \in calls' :
          c.gen = generation' /\ d.gen = generation' /\ c.ep = d.ep => c = d
    BY <1>4, <2>1
  <2>5. \A e \in Endpoints : \E c \in calls' : c.ep = e /\ c.gen = generation'
    BY <1>2, <1>4
  <2> QED BY <2>3, <2>4, <2>5 DEF Matched
<1>8. NoFuture'
  <2>1. \A c \in calls' : c.gen <= generation'
    <3> SUFFICES ASSUME NEW c \in calls' PROVE c.gen <= generation'
      OBVIOUS
    <3>1. CASE c \in left
      <4>1. c \in calls /\ c.gen < generation'
        BY <1>3, <3>1
      <4>2. c.gen \in Int
        BY <4>1, GenerationsNat DEF TypeOK, Call
      <4> QED BY <1>1, <4>1, <4>2, GenerationsNat
    <3>2. CASE c.gen = generation'
      BY <1>1, <3>2, GenerationsNat
    <3> QED BY <1>2, <1>4, <3>1, <3>2
  <2>2. \A e \in Endpoints : owner'[e] <= generation'
    BY <1>1, GenerationsNat DEF Refresh
  <2> QED BY <2>1, <2>2 DEF NoFuture
<1>9. Progress'
  BY DEF Refresh, Progress
<1>10. LoadingWhilePending'
  <2>1. {e \in Endpoints : Pending(e)'} = Endpoints
    BY <1>5
  <2> QED BY <1>5, <2>1, RefreshAssumption DEF Refresh, LoadingWhilePending
<1> QED BY <1>6, <1>7, <1>8, <1>9, <1>10

(* A new credential ends the generation: nothing is live any more.         *)
LEMMA SetApiKeyKeepsInv ==
  ASSUME RefreshInv, NEW k \in Keys \cup {NoKey}, SetApiKey(k)
  PROVE  RefreshInv'
<1> USE DEF RefreshInv
<1>1. generation' \in Generations /\ generation' > generation
  BY GenerationsNat, RefreshAssumption DEF SetApiKey, TypeOK, Generations
<1>2. calls' \subseteq calls
  BY DEF SetApiKey, AfterAbort
<1>3. /\ \A c \in calls' : c.gen \in Int /\ c.gen < generation'
      /\ \A e \in Endpoints : owner'[e] \in Int /\ owner'[e] < generation'
  <2>1. generation \in Int /\ generation' \in Int /\ owner' = owner
    BY <1>1, GenerationsNat DEF SetApiKey, TypeOK
  <2>2. \A c \in calls : c.gen \in Int
    BY GenerationsNat DEF TypeOK, Call
  <2>3. \A e \in Endpoints : owner[e] \in Int
    BY GenerationsNat DEF TypeOK
  <2> QED BY <1>1, <1>2, <2>1, <2>2, <2>3 DEF NoFuture
<1>4. \A e \in Endpoints : ~Pending(e)'
  BY <1>1, <1>3, GenerationsNat DEF Pending, SetApiKey, TypeOK
<1>5. TypeOK'
  BY <1>1, <1>2 DEF SetApiKey, TypeOK
<1>6. Matched'
  BY <1>1, <1>2, <1>3, <1>4, GenerationsNat DEF Matched, TypeOK, Call
<1>7. NoFuture'
  BY <1>1, <1>3, GenerationsNat DEF NoFuture
<1>8. Progress' /\ LoadingWhilePending'
  BY <1>4 DEF SetApiKey, Progress, LoadingWhilePending
<1> QED BY <1>5, <1>6, <1>7, <1>8

-----------------------------------------------------------------------------
(* Replies *)

(* Finishing a pagination takes its only call away and its open flag with  *)
(* it, and the counter goes down by one.                                   *)
LEMMA FinishKeepsCount ==
  ASSUME RefreshInv, NEW c \in calls, Live(c), Finish(c.ep),
         calls' = calls \ {c}, UNCHANGED <<key, generation, owner>>
  PROVE  /\ open' \in [Endpoints -> BOOLEAN]
         /\ count' \in 0 .. Cardinality(Endpoints)
         /\ loading
         /\ loading' \in BOOLEAN
         /\ Matched' /\ NoFuture' /\ LoadingWhilePending'
<1> USE DEF RefreshInv
<1> DEFINE P == {e \in Endpoints : Pending(e)}
<1>1. c.ep \in Endpoints /\ c.gen = generation /\ Pending(c.ep)
  BY DEF Live, Pending, TypeOK, Call
<1>2. loading
  BY <1>1 DEF LoadingWhilePending
<1>3. count = Cardinality(P) /\ count \in Nat /\ count # 0
  <2>1. count = Cardinality(P)
    BY <1>2 DEF LoadingWhilePending
  <2>2. IsFiniteSet(P) /\ Cardinality(P) \in 0 .. Cardinality(Endpoints)
    BY EndpointsCount
  <2>3. P # {}
    BY <1>1
  <2> QED BY <2>1, <2>2, <2>3, FS_EmptySet, EndpointsCount
<1>4. {e \in Endpoints : Pending(e)'} = P \ {c.ep}
  BY <1>1 DEF Finish, Pending, TypeOK
<1>5. Cardinality(P \ {c.ep}) = count - 1 /\ IsFiniteSet(P \ {c.ep})
  BY <1>1, <1>3, FS_RemoveElement, EndpointsCount
<1>6. open' \in [Endpoints -> BOOLEAN] /\ count' \in 0 .. Cardinality(Endpoints)
  <2>1. count' = count - 1 /\ count <= Cardinality(Endpoints)
    BY DEF Finish, TypeOK
  <2>2. open' \in [Endpoints -> BOOLEAN]
    BY DEF Finish, TypeOK
  <2> QED BY <1>3, <2>1, <2>2, EndpointsCount
<1>7. loading' = (P \ {c.ep} # {})
  <2>1. (count - 1 = 0) <=> (P \ {c.ep} = {})
    BY <1>5, FS_EmptySet
  <2>2. loading' = (count - 1 > 0)
    BY <1>2, <1>3 DEF Finish, TypeOK
  <2> QED BY <1>3, <2>1, <2>2
<1>8. LoadingWhilePending'
  <2>1. loading' = (\E e \in Endpoints : Pending(e)')
    BY <1>4, <1>7
  <2>2. count' = Cardinality({e \in Endpoints : Pending(e)'})
    BY <1>4, <1>5 DEF Finish
  <2> QED BY <2>1, <2>2 DEF LoadingWhilePending
<1>9. Matched'
  <2>1. \A e \in Endpoints \ {c.ep} : Pending(e)' = Pending(e)
    BY DEF Finish, Pending, TypeOK
  <2>2. \A d \in calls' : d.gen = generation => d.ep \in Endpoints \ {c.ep}
    BY <1>1 DEF Matched, TypeOK, Call
  <2>3. ~Pending(c.ep)'
    BY <1>1 DEF Finish, Pending, TypeOK
  <2> QED BY <1>1, <2>1, <2>2, <2>3 DEF Matched
<1>10. NoFuture'
  BY DEF NoFuture
<1> QED BY <1>2, <1>6, <1>7, <1>8, <1>9, <1>10

LEMMA FailsKeepsInv ==
  ASSUME RefreshInv, NEW c \in calls, Live(c),
         NEW kind \in ErrorKinds \ {"None"}, NEW retryAfter \in BOOLEAN,
         Fails(c, kind, retryAfter)
  PROVE  RefreshInv'
<1> USE DEF RefreshInv
<1>1. c.ep \in Endpoints
  BY DEF TypeOK, Call
<1>2. /\ open' \in [Endpoints -> BOOLEAN]
      /\ count' \in 0 .. Cardinality(Endpoints)
      /\ loading /\ loading' \in BOOLEAN
      /\ Matched' /\ NoFuture' /\ LoadingWhilePending'
  BY FinishKeepsCount DEF Fails
<1>3. TypeOK'
  BY <1>1, <1>2 DEF Fails, TypeOK
<1>4. Progress'
  BY <1>1, <1>2 DEF Fails, Finish, Progress, TypeOK
<1> QED BY <1>2, <1>3, <1>4

LEMMA SucceedKeepsInv ==
  ASSUME RefreshInv, NEW c \in calls, Succeed(c)
  PROVE  RefreshInv'
<1> USE DEF RefreshInv
<1>1. c.ep \in Endpoints /\ c.key = key
  BY DEF Succeed, Live, Matched, TypeOK, Call
<1>2. /\ open' \in [Endpoints -> BOOLEAN]
      /\ count' \in 0 .. Cardinality(Endpoints)
      /\ loading /\ loading' \in BOOLEAN
      /\ Matched' /\ NoFuture' /\ LoadingWhilePending'
  BY FinishKeepsCount DEF Succeed
<1>3. TypeOK'
  BY <1>1, <1>2 DEF Succeed, TypeOK
<1>4. Progress'
  BY <1>1, <1>2 DEF Succeed, Finish, Progress, TypeOK
<1> QED BY <1>2, <1>3, <1>4

(* A retry or a next page: the endpoint's call is replaced by another one  *)
(* of the same generation and with the current credential.                 *)
LEMMA ReplaceKeepsInv ==
  ASSUME RefreshInv, NEW c \in calls, Live(c), NEW d \in Call,
         d.ep = c.ep, d.gen = c.gen, d.key = key,
         calls' = (calls \ {c}) \cup {d},
         pages' \in 0 .. PageLimit,
         UNCHANGED <<key, generation, owner, lastReason, outcome>>
  PROVE  RefreshInv'
<1> USE DEF RefreshInv
<1>1. c.gen = generation /\ Pending(c.ep)
  BY DEF Live, Pending
<1>2. TypeOK'
  BY DEF TypeOK, outcome
<1>3. \A e \in Endpoints : Pending(e)' = Pending(e)
  BY DEF Pending, outcome
<1>4. Matched'
  <2>1. Pending(c.ep)'
    BY <1>1, <1>3 DEF Call, TypeOK
  <2>2. \A b \in calls' : b.gen = generation' => Pending(b.ep)' /\ b.key = key'
    BY <1>1, <1>3, <2>1 DEF Matched, TypeOK, Call
  <2>3. \A a, b \in calls' :
          a.gen = generation' /\ b.gen = generation' /\ a.ep = b.ep => a = b
    BY <1>1 DEF Matched
  <2>4. \A e \in Endpoints :
          Pending(e)' => \E b \in calls' : b.ep = e /\ b.gen = generation'
    BY <1>1, <1>3 DEF Matched
  <2> QED BY <2>2, <2>3, <2>4 DEF Matched
<1>5. NoFuture'
  BY <1>1, GenerationsNat DEF NoFuture, TypeOK
<1>6. Progress'
  BY DEF Progress, outcome
<1>7. LoadingWhilePending'
  BY <1>3 DEF LoadingWhilePending, outcome
<1> QED BY <1>2, <1>4, <1>5, <1>6, <1>7

(* Dropping a call that is not live, or letting a hold pass.               *)
LEMMA StaleKeepsInv ==
  ASSUME RefreshInv, NEW c \in calls, StaleReturns(c)
  PROVE  RefreshInv'
<1> USE DEF RefreshInv
<1>1. c.gen # generation
  BY DEF StaleReturns, Live, Matched, Pending
<1>2. \A e \in Endpoints : Pending(e)' = Pending(e)
  BY DEF Pending, StaleReturns, outcome
<1>3. TypeOK' /\ NoFuture' /\ Progress'
  BY DEF StaleReturns, outcome, TypeOK, NoFuture, Progress
<1>4. Matched'
  BY <1>1, <1>2 DEF StaleReturns, Matched, outcome, TypeOK, Call
<1>5. LoadingWhilePending'
  BY <1>2 DEF StaleReturns, LoadingWhilePending, outcome
<1> QED BY <1>3, <1>4, <1>5

LEMMA ReturnsKeepsInv ==
  ASSUME RefreshInv, NEW c \in calls, Returns(c)
  PROVE  RefreshInv'
<1>0. c \in Call /\ PageLimit \in Nat /\ MaxRetries \in Nat /\ pages \in 0 .. PageLimit
  BY RefreshAssumption DEF RefreshInv, TypeOK
<1>1. CASE StaleReturns(c)
  BY <1>1, StaleKeepsInv
<1>2. CASE Succeed(c)
  BY <1>2, SucceedKeepsInv
<1>3. ASSUME NEW kind \in {"Authentication", "Schema", "Network"},
             NEW retryAfter \in BOOLEAN, FailAtOnce(c, kind, retryAfter)
      PROVE  RefreshInv'
  BY <1>3, FailsKeepsInv DEF FailAtOnce
<1>4. ASSUME NEW retryAfter \in BOOLEAN, Busy(c, retryAfter)
      PROVE  RefreshInv'
  <2>1. CASE c.retry < MaxRetries
    <3> DEFINE d == [c EXCEPT !.retry = c.retry + 1, !.timer = TRUE]
    <3>1. c.key = key
      BY <1>4 DEF Busy, Live, RefreshInv, Matched
    <3>2. c.retry + 1 \in 0 .. MaxRetries
      BY <1>0, <2>1 DEF Call
    <3>3. d \in Call
      BY <1>0, <3>2 DEF Call
    <3>4. d.ep = c.ep /\ d.gen = c.gen /\ d.key = key
      BY <1>0, <3>1 DEF Call
    <3> QED BY <1>0, <1>4, <2>1, <3>3, <3>4, ReplaceKeepsInv DEF Busy
  <2>2. CASE ~(c.retry < MaxRetries)
    BY <1>4, <2>2, FailsKeepsInv DEF Busy
  <2> QED BY <2>1, <2>2
<1>5. CASE RetryTimer(c)
  <2> DEFINE d == [c EXCEPT !.timer = FALSE, !.key = key]
  <2>1. d \in Call /\ d.ep = c.ep /\ d.gen = c.gen /\ d.key = key
    <3>1. key \in Keys
      BY <1>0, <1>5 DEF RetryTimer, Live, RefreshInv, Matched, Call
    <3>2. c.key = key
      BY <1>5 DEF RetryTimer, Live, RefreshInv, Matched
    <3> QED BY <1>0, <3>1, <3>2 DEF Call
  <2> QED BY <1>0, <1>5, <2>1, ReplaceKeepsInv DEF RetryTimer
<1>6. CASE NextPage(c)
  <2>1. CASE pages < PageLimit
    <3> DEFINE d == Request(c.ep, generation)
    <3>1. c.gen = generation /\ key \in Keys
      BY <1>0, <1>6 DEF NextPage, Live, RefreshInv, Matched, Call
    <3>2. d \in Call /\ d.ep = c.ep /\ d.gen = c.gen /\ d.key = key
      BY <1>0, <3>1 DEF Call, Request
    <3> QED BY <1>0, <1>6, <2>1, <3>2, ReplaceKeepsInv DEF NextPage
  <2>2. CASE ~(pages < PageLimit)
    BY <1>6, <2>2, FailsKeepsInv DEF NextPage
  <2> QED BY <2>1, <2>2
<1> QED BY <1>1, <1>2, <1>3, <1>4, <1>5, <1>6 DEF Returns

(* Steps that touch neither paginations nor calls.                         *)
LEMMA QuietKeepsInv ==
  ASSUME RefreshInv, errorKind' \in ErrorKinds, hold' \in BOOLEAN,
         UNCHANGED <<key, generation, loading, lastReason, open, owner, count,
                     pages, capability, problem, data, calls>>
  PROVE  RefreshInv'
<1>1. TypeOK' /\ Matched' /\ NoFuture' /\ Progress'
  BY DEF RefreshInv, TypeOK, Matched, NoFuture, Progress, Pending
<1>2. LoadingWhilePending'
  BY DEF RefreshInv, LoadingWhilePending, Pending
<1> QED BY <1>1, <1>2 DEF RefreshInv

LEMMA NextInv == RefreshInv /\ [Next]_vars => RefreshInv'
<1> SUFFICES ASSUME RefreshInv, [Next]_vars PROVE RefreshInv'
  OBVIOUS
<1>1. ASSUME NEW reason \in Reasons, Refresh(reason) PROVE RefreshInv'
  BY <1>1, RefreshKeepsInv
<1>2. ASSUME NEW reason \in Reasons, RefreshWithoutKey(reason) PROVE RefreshInv'
  BY <1>2, QuietKeepsInv DEF RefreshWithoutKey
<1>3. ASSUME NEW k \in Keys \cup {NoKey}, SetApiKey(k) PROVE RefreshInv'
  BY <1>3, SetApiKeyKeepsInv
<1>4. CASE RetryAfterPasses
  BY <1>4, QuietKeepsInv DEF RetryAfterPasses, RefreshInv, TypeOK
<1>5. ASSUME NEW c \in calls, Returns(c) PROVE RefreshInv'
  BY <1>5, ReturnsKeepsInv
<1>6. CASE UNCHANGED vars
  BY <1>6, QuietKeepsInv DEF vars, outcome, RefreshInv, TypeOK
<1> QED BY <1>1, <1>2, <1>3, <1>4, <1>5, <1>6 DEF Next

LEMMA SpecInv == Spec => []RefreshInv
  BY InitInv, NextInv, PTL DEF Spec

-----------------------------------------------------------------------------
(* Theorems *)

(* Type correctness, and with it the page and retry limits of a refresh.   *)
THEOREM TypeCorrect == Spec => []TypeOK
<1>1. RefreshInv => TypeOK
  BY DEF RefreshInv
<1> QED BY <1>1, SpecInv, PTL

(* No refresh hangs on an endpoint that nothing will answer for, and none  *)
(* is answered twice.                                                      *)
THEOREM OneCall == Spec => []OneCallPerPagination
<1>1. RefreshInv => OneCallPerPagination
  <2> SUFFICES ASSUME RefreshInv, NEW e \in Endpoints
               PROVE  IF Pending(e) THEN \E c \in calls : CallsOf(e) = {c}
                      ELSE CallsOf(e) = {}
    BY DEF OneCallPerPagination
  <2> USE DEF RefreshInv
  <2>1. CASE Pending(e)
    <3>1. PICK c \in calls : c.ep = e /\ c.gen = generation
      BY <2>1 DEF Matched
    <3>2. CallsOf(e) = {c}
      BY <3>1 DEF Matched, CallsOf
    <3> QED BY <2>1, <3>2
  <2>2. CASE ~Pending(e)
    BY <2>2 DEF Matched, CallsOf
  <2> QED BY <2>1, <2>2
<1> QED BY <1>1, SpecInv, PTL

(* The loading state and the counter agree with the paginations.           *)
THEOREM LoadingIsPending == Spec => []LoadingWhilePending
<1>1. RefreshInv => LoadingWhilePending
  BY DEF RefreshInv
<1> QED BY <1>1, SpecInv, PTL

(* No answer obtained with an old credential takes effect.                 *)
THEOREM OldCredentialIgnored == Spec => OtherCredentialIgnored
<1>1. RefreshInv /\ [Next]_vars =>
        [\A c \in calls \ calls' :
           generation' = generation /\ c.key # key => UNCHANGED outcome]_vars
  <2> SUFFICES ASSUME RefreshInv, Next, NEW c \in calls \ calls',
                      generation' = generation, c.key # key
               PROVE  UNCHANGED outcome
    OBVIOUS
  <2>1. c.gen # generation
    BY DEF RefreshInv, Matched
  <2>2. generation \in Int
    BY GenerationsNat DEF RefreshInv, TypeOK
  <2>3. PICK d \in calls : Returns(d)
    BY <2>2 DEF Next, Refresh, RefreshWithoutKey, SetApiKey, RetryAfterPasses
  <2>4. c = d
    BY <2>3 DEF Returns, StaleReturns, Succeed, FailAtOnce, Fails, Busy, RetryTimer, NextPage
  <2>5. StaleReturns(d)
    BY <2>1, <2>3, <2>4 DEF Returns, Live, Succeed, FailAtOnce, Busy, RetryTimer, NextPage
  <2> QED BY <2>5 DEF StaleReturns
<1> QED BY <1>1, SpecInv, PTL DEF Spec, OtherCredentialIgnored

(* A refresh that completes has an outcome for every endpoint.             *)
THEOREM CompletionDecides == Spec => CompletionDecidesAll
<1>1. RefreshInv /\ RefreshInv' /\ [Next]_vars => [CompletionStep]_vars
  <2> SUFFICES ASSUME RefreshInv, RefreshInv', Next, loading, ~loading',
                      generation' = generation, NEW e \in Endpoints
               PROVE  IF capability'[e] = "available" THEN data'[e] = key
                      ELSE capability'[e] \in {"failed", "stale"} /\ problem'[e] # "None"
    BY DEF CompletionStep
  <2>1. generation \in Int
    BY GenerationsNat DEF RefreshInv, TypeOK
  <2>2. PICK c \in calls : Returns(c)
    <3>1. loading' # loading
      OBVIOUS
    <3>2. \A reason \in Reasons : ~Refresh(reason) /\ ~RefreshWithoutKey(reason)
      BY <2>1, <3>1 DEF Refresh, RefreshWithoutKey
    <3>3. \A k \in Keys \cup {NoKey} : ~SetApiKey(k)
      BY <2>1 DEF SetApiKey
    <3> QED BY <3>1, <3>2, <3>3 DEF Next, RetryAfterPasses
  <2>3. Live(c) /\ c.ep \in Endpoints /\ owner' = owner /\ key' = key
    BY <2>2 DEF Returns, StaleReturns, Succeed, FailAtOnce, Fails, Busy, RetryTimer,
                NextPage, outcome, RefreshInv, TypeOK, Call
  <2>4. /\ owner[e] = generation
        /\ ~open[e] => IF capability[e] = "available" THEN data[e] = key
                       ELSE capability[e] \in {"failed", "stale"} /\ problem[e] # "None"
    BY DEF RefreshInv, Progress
  <2>5. ~open'[e]
    BY <2>3, <2>4 DEF RefreshInv, LoadingWhilePending, Pending
  <2>6. c.key = key
    BY <2>3 DEF RefreshInv, Matched, Live
  <2>7. CASE Succeed(c)
    BY <2>3, <2>4, <2>5, <2>6, <2>7 DEF Succeed, Finish, RefreshInv, TypeOK
  <2>8. ASSUME NEW kind \in ErrorKinds \ {"None"}, NEW retryAfter \in BOOLEAN,
               Fails(c, kind, retryAfter)
        PROVE  IF capability'[e] = "available" THEN data'[e] = key
               ELSE capability'[e] \in {"failed", "stale"} /\ problem'[e] # "None"
    BY <2>3, <2>4, <2>5, <2>8 DEF Fails, Finish, RefreshInv, TypeOK
  <2>9. Succeed(c) \/ \E kind \in ErrorKinds \ {"None"}, retryAfter \in BOOLEAN :
                        Fails(c, kind, retryAfter)
    BY <2>2 DEF Returns, StaleReturns, FailAtOnce, Busy, RetryTimer, NextPage, outcome
  <2> QED BY <2>7, <2>8, <2>9
<1> QED BY <1>1, SpecInv, PTL DEF Spec, CompletionDecidesAll

-----------------------------------------------------------------------------
(* The refinement *)

Awaited == {e \in Endpoints : Pending(e)}

(* One pagination finishes: its endpoint has answered.                     *)
LEMMA FinishAnswers ==
  ASSUME RefreshInv, RefreshInv', NEW c \in calls, Live(c), Finish(c.ep),
         UNCHANGED <<key, generation, owner>>,
         data' = data \/ data' = [data EXCEPT ![c.ep] = key]
  PROVE  Promise!Answer(c.ep)
<1>1. c.ep \in Endpoints
  BY DEF RefreshInv, TypeOK, Call
<1>2. c.ep \in Awaited
  BY <1>1 DEF Live, Awaited, Pending
<1>3. Awaited' = Awaited \ {c.ep}
  BY <1>1 DEF Finish, Awaited, Pending, RefreshInv, TypeOK
<1>4. loading' = (Awaited' # {})
  BY DEF RefreshInv, LoadingWhilePending, Awaited
<1> QED BY <1>2, <1>3, <1>4 DEF Promise!Answer, Awaited

(* A reply or a timer answers for its endpoint, or nobody outside sees it. *)
LEMMA ReturnsAnswers ==
  ASSUME RefreshInv, RefreshInv', NEW c \in calls, Returns(c)
  PROVE  Promise!Answer(c.ep) \/ UNCHANGED Promise!vars
<1>1. CASE Succeed(c)
  <2>1. Live(c) /\ Finish(c.ep) /\ UNCHANGED <<key, generation, owner>>
    BY <1>1 DEF Succeed
  <2>2. c.key = key
    BY <2>1 DEF RefreshInv, Matched, Live
  <2>3. data' = [data EXCEPT ![c.ep] = key]
    BY <1>1, <2>2 DEF Succeed
  <2> QED BY <2>1, <2>3, FinishAnswers
<1>2. ASSUME NEW kind \in ErrorKinds, NEW retryAfter \in BOOLEAN,
             Live(c), Fails(c, kind, retryAfter)
      PROVE  Promise!Answer(c.ep)
  <2>1. Finish(c.ep) /\ UNCHANGED <<key, generation, owner, data>>
    BY <1>2 DEF Fails
  <2> QED BY <1>2, <2>1, FinishAnswers
<1>3. ASSUME UNCHANGED <<key, generation, owner, outcome>>
      PROVE  UNCHANGED Promise!vars
  BY <1>3 DEF Promise!vars, outcome, Pending
<1>4. \/ Succeed(c)
      \/ \E kind \in ErrorKinds, retryAfter \in BOOLEAN :
           Live(c) /\ Fails(c, kind, retryAfter)
      \/ UNCHANGED <<key, generation, owner, outcome>>
  BY DEF Returns, StaleReturns, FailAtOnce, Busy, RetryTimer, NextPage
<1> QED BY <1>1, <1>2, <1>3, <1>4

(* Whatever requests, pages, retries and stale replies it takes, a refresh *)
(* is seen to begin, to be answered once by every endpoint and to end, or  *)
(* to end with its credential (providerbackend.cpp, openaiprovider.cpp).   *)
THEOREM KeepsTheSafetyOfThePromise == Spec => Promise!Spec
<1>1. Init => Promise!Init
  BY DEF Init, Promise!Init, Pending
<1>2. RefreshInv /\ RefreshInv' /\ [Next]_vars => [Promise!Next]_(Promise!vars)
  <2> SUFFICES ASSUME RefreshInv, RefreshInv', [Next]_vars
               PROVE  Promise!Next \/ UNCHANGED Promise!vars
    OBVIOUS
  <2>1. ASSUME NEW reason \in Reasons, Refresh(reason)
        PROVE  Promise!Begin
    BY <2>1 DEF Refresh, Promise!Begin, Pending
  <2>2. ASSUME NEW reason \in Reasons, RefreshWithoutKey(reason)
        PROVE  UNCHANGED Promise!vars
    BY <2>2 DEF RefreshWithoutKey, Promise!vars, Pending
  <2>3. ASSUME NEW k \in Keys \cup {NoKey}, SetApiKey(k)
        PROVE  Promise!SetKey(k)
    <3>1. generation \in Int /\ \A e \in Endpoints : owner[e] \in Int
      BY GenerationsNat DEF RefreshInv, TypeOK
    <3>2. \A e \in Endpoints : owner'[e] # generation'
      BY <2>3, <3>1 DEF SetApiKey, RefreshInv, NoFuture
    <3>3. Awaited' = {}
      BY <3>2 DEF Awaited, Pending
    <3> QED BY <2>3, <3>3 DEF SetApiKey, Promise!SetKey, Awaited
  <2>4. CASE RetryAfterPasses
    BY <2>4 DEF RetryAfterPasses, Promise!vars, Pending
  <2>5. ASSUME NEW c \in calls, Returns(c)
        PROVE  Promise!Next \/ UNCHANGED Promise!vars
    <3>1. c.ep \in Endpoints
      BY DEF RefreshInv, TypeOK, Call
    <3> QED BY <2>5, <3>1, ReturnsAnswers DEF Promise!Next
  <2>6. CASE UNCHANGED vars
    BY <2>6 DEF vars, outcome, Promise!vars, Pending
  <2> QED BY <2>1, <2>2, <2>3, <2>4, <2>5, <2>6 DEF Next, Promise!Next
<1> QED BY <1>1, <1>2, SpecInv, PTL DEF Spec, Promise!Spec
=============================================================================
