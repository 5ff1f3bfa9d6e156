--------------------------- MODULE Queries_proofs ---------------------------
(***************************************************************************)
(* What the window shows of its workers' answers, for any number of        *)
(* threads, changes, requests and files.                                   *)
(*                                                                         *)
(* The forecasts shown never go back to an older history or policy, and    *)
(* the cache serves nothing older than the last change that was reported.  *)
(*                                                                         *)
(* Only the worker of the last request may still show its answer, and      *)
(* nothing else is shown while it runs: what it reads is at least as new   *)
(* as what is shown.  A cached answer to the present query is at least as  *)
(* new as what is shown because a worker with any other query was asked    *)
(* before the revision or the policies changed, which empties the cache.   *)
(*                                                                         *)
(* The history view shows its selection because requests of a kind are     *)
(* numbered and only the answer of the last is told, and every change of   *)
(* what is selected asks anew.  The activity that is counted is a change   *)
(* of its own because there are always at least as many that were not      *)
(* counted as the scan will find and has missed.                           *)
(*                                                                         *)
(* A series keeps its intervals because a sum over a finite set is the sum *)
(* of the sums over its classes, whatever the classes are and in whatever  *)
(* order their members are added.                                          *)
(*                                                                         *)
(* The daily state is sound because the rows are sorted by a key that      *)
(* begins with the place of their reason, each reason is of one severity,  *)
(* each row counts only metrics that are fresh now, and the costs of a     *)
(* provider are all billed once anything was billed, else all estimated:   *)
(* that is the invariant of the steps, by induction over the metrics of a  *)
(* report.  The groups of spend are classes of a finite set, so the same   *)
(* lemma as for the series adds them up.                                   *)
(***************************************************************************)
EXTENDS Queries, Sums_proofs

Present == [policies |-> policies, revision |-> revision]

Work == [query : Queries, cancelled : BOOLEAN, left : 0 .. 3, answer : Answers]

ForecastTypes ==
  /\ enabled \in BOOLEAN
  /\ stored \in Nat /\ told \in Nat /\ revision \in Nat /\ policies \in Nat
  /\ period \in Nat /\ generation \in Nat
  /\ \A g \in DOMAIN work : g \in Nat /\ g <= generation /\ work[g] \in Work
  /\ \A q \in DOMAIN cache : cache[q] \in Answers
  /\ shown.answer \in Answers

(* Nothing is of a version, a revision or a policy yet to come.            *)
NoFuture ==
  /\ told <= stored
  /\ \A g \in DOMAIN work :
       /\ work[g].query.policies <= policies /\ work[g].query.revision <= revision
       /\ work[g].answer.since <= stored
       /\ work[g].answer.query = work[g].query
  /\ \A q \in DOMAIN cache : cache[q].since <= stored /\ cache[q].query = q
  /\ shown.answer.since <= stored /\ shown.answer.query.policies <= policies

(* An answer at least as new as what is shown.                             *)
NotBefore(answer) ==
  answer.query # Nothing /\ shown.answer.query # Nothing =>
    /\ answer.since >= shown.answer.since
    /\ answer.query.policies >= shown.answer.query.policies

(* What a live worker was asked is not older than what is shown, and what  *)
(* it has begun to read is not older either, nor than the last change      *)
(* reported if it was asked about the present.                             *)
LiveIsNew ==
  \A g \in DOMAIN work : ~work[g].cancelled =>
    /\ work[g].query # Nothing /\ shown.answer.query # Nothing =>
         work[g].query.policies >= shown.answer.query.policies
    /\ work[g].left # 3 =>
         /\ NotBefore(work[g].answer)
         /\ work[g].query = Present => work[g].answer.since >= told

(* While the cache answers the present query, no live worker is asked      *)
(* about another revision.                                                 *)
CacheIsNew ==
  Present \in DOMAIN cache =>
    /\ NotBefore(cache[Present])
    /\ cache[Present].since >= told
    /\ \A g \in DOMAIN work : work[g].cancelled \/ work[g].query \in {Present, Nothing}

ForecastInv ==
  ForecastTypes /\ OneAsked /\ NoFuture /\ LiveIsNew /\ CacheIsNew

-----------------------------------------------------------------------------
LEMMA InitInv == Init => ForecastInv
BY DEF Init, ForecastInv, ForecastTypes, OneAsked, NoFuture, LiveIsNew, CacheIsNew,
       Nothing, Answer, Answers, Queries

(* A change that is reported, of the history or of the policies, empties   *)
(* the cache and makes a present no worker was asked about.                *)
LEMMA ChangeInv ==
  ASSUME ForecastInv,
         stored' \in Nat, stored' >= stored, told' \in Nat, told' <= stored',
         policies' \in Nat, policies' >= policies,
         revision' \in Nat, revision' >= revision, period' \in Nat, enabled' \in BOOLEAN,
         \/ told' = told /\ policies' = policies /\ revision' = revision /\ cache' = cache
         \/ (policies' > policies \/ revision' > revision) /\ cache' = <<>>,
         UNCHANGED <<generation, work, shown>>
  PROVE  ForecastInv'
<1>1. ForecastTypes'
  BY DEF ForecastInv, ForecastTypes
<1>2. OneAsked'
  BY DEF ForecastInv, OneAsked
<1>3. NoFuture'
  <2>1. ASSUME NEW g \in DOMAIN work
        PROVE  /\ work[g].query.policies <= policies' /\ work[g].query.revision <= revision'
               /\ work[g].answer.since <= stored'
               /\ work[g].answer.query = work[g].query
    <3>1. /\ work[g].query.policies \in Nat /\ work[g].query.revision \in Nat
          /\ work[g].answer.since \in Nat
      BY DEF ForecastInv, ForecastTypes, Work, Answers, Queries
    <3>2. /\ work[g].query.policies <= policies /\ work[g].query.revision <= revision
          /\ work[g].answer.since <= stored
          /\ work[g].answer.query = work[g].query
      BY DEF ForecastInv, NoFuture
    <3>3. stored \in Nat /\ policies \in Nat /\ revision \in Nat
      BY DEF ForecastInv, ForecastTypes
    <3> QED
      BY SMTT(30), <3>1, <3>2, <3>3
  <2>2. ASSUME NEW q \in DOMAIN cache'
        PROVE  cache'[q].since <= stored' /\ cache'[q].query = q
    <3>1. cache' = cache
      BY <2>2
    <3>2. cache[q].since \in Nat
      BY <3>1 DEF ForecastInv, ForecastTypes, Answers
    <3> QED
      BY <3>1, <3>2 DEF ForecastInv, ForecastTypes, NoFuture
  <2>3. shown.answer.since <= stored' /\ shown.answer.query.policies <= policies'
    <3>1. shown.answer.since \in Nat /\ shown.answer.query.policies \in Nat
      BY DEF ForecastInv, ForecastTypes, Answers, Queries
    <3> QED
      BY SMTT(30), <3>1 DEF ForecastInv, ForecastTypes, NoFuture
  <2> QED
    BY <2>1, <2>2, <2>3 DEF NoFuture
<1>4. LiveIsNew'
  <2>1. ASSUME NEW g \in DOMAIN work, work[g].query = Present'
        PROVE  told' = told /\ Present' = Present
    <3>1. work[g].query.policies = policies' /\ work[g].query.revision = revision'
      BY <2>1 DEF Present
    <3> QED
      BY <3>1 DEF ForecastInv, ForecastTypes, NoFuture, Present
  <2> QED
    BY <2>1 DEF ForecastInv, LiveIsNew, NotBefore
<1>5. CacheIsNew'
  BY DEF ForecastInv, CacheIsNew, NotBefore, Present
<1> QED
  BY <1>1, <1>2, <1>3, <1>4, <1>5 DEF ForecastInv

(* A request is answered from the cache, or by the only worker that is not *)
(* cancelled.                                                              *)
LEMMA StartInv ==
  ASSUME ForecastInv, Start
  PROVE  ForecastInv'
<1> DEFINE g == generation + 1
<1>1. UNCHANGED <<enabled, stored, told, revision, policies, period, cache>>
  BY DEF Start, outside
<1>2. generation' = g /\ g \in Nat /\ g \notin DOMAIN work
  BY DEF Start, ForecastInv, ForecastTypes
<1>3. Query \in Queries /\ Query \in {Present, Nothing} /\ Query.policies <= policies
      /\ Query.revision <= revision
  BY DEF ForecastInv, ForecastTypes, Query, Queries, Present, Nothing
<1>4. /\ DOMAIN Cancelled = DOMAIN work
      /\ \A h \in DOMAIN work :
           /\ Cancelled[h] \in Work
           /\ Cancelled[h].cancelled = TRUE
           /\ Cancelled[h].query = work[h].query
           /\ Cancelled[h].answer = work[h].answer
  BY DEF Cancelled, ForecastInv, ForecastTypes, Work
<1>5. CASE Query \in DOMAIN cache
  <2>1. work' = Cancelled /\ shown' = [generation |-> g, answer |-> cache[Query]]
    BY <1>5 DEF Start
  <2>2. ForecastTypes'
    BY <1>1, <1>2, <1>4, <1>5, <2>1 DEF ForecastInv, ForecastTypes
  <2>3. OneAsked'
    BY <1>4, <2>1 DEF OneAsked
  <2>4. cache[Query].query = Query /\ cache[Query].since <= stored
    BY <1>5 DEF ForecastInv, NoFuture
  <2>5. NoFuture'
    BY <1>1, <1>3, <1>4, <2>1, <2>4 DEF ForecastInv, NoFuture
  <2>6. LiveIsNew'
    BY <1>4, <2>1 DEF LiveIsNew
  <2>7. CacheIsNew'
    <3>1. CASE Query = Nothing
      BY <1>1, <1>4, <2>1, <2>4, <3>1 DEF ForecastInv, CacheIsNew, NotBefore, Present
    <3>2. CASE Query = Present
      BY <1>1, <1>4, <2>1, <2>4, <3>2 DEF ForecastInv, ForecastTypes, Answers, Queries,
         CacheIsNew, NotBefore, Present
    <3> QED
      BY <1>3, <3>1, <3>2
  <2> QED
    BY <2>2, <2>3, <2>5, <2>6, <2>7 DEF ForecastInv
<1>6. CASE Query \notin DOMAIN cache
  <2> DEFINE w == [query |-> Query, cancelled |-> FALSE, left |-> 3,
                   answer |-> Answer(Query, 0, TRUE, 0)]
  <2>1. /\ DOMAIN work' = DOMAIN work \union {g}
        /\ work'[g] = w
        /\ \A h \in DOMAIN work : work'[h] = Cancelled[h]
        /\ shown' = shown
    BY <1>2, <1>6 DEF Start
  <2>2. w \in Work
    BY <1>3 DEF Work, Answer, Answers
  <2>3. w.query = Query /\ w.answer.query = Query /\ w.answer.since = 0 /\ w.left = 3
    BY DEF Answer
  <2> HIDE DEF w
  <2>4. ForecastTypes'
    BY <1>1, <1>2, <1>4, <2>1, <2>2 DEF ForecastInv, ForecastTypes
  <2>5. OneAsked'
    BY <1>2, <1>4, <2>1 DEF OneAsked
  <2>6. NoFuture'
    BY <1>1, <1>3, <1>4, <2>1, <2>3 DEF ForecastInv, ForecastTypes, NoFuture
  <2>7. LiveIsNew'
    <3>1. Query # Nothing => Query.policies = policies
      BY <1>3 DEF Present
    <3> QED
      BY <1>1, <1>4, <2>1, <2>3, <3>1 DEF ForecastInv, NoFuture, LiveIsNew
  <2>8. CacheIsNew'
    BY <1>1, <1>3, <1>4, <2>1, <2>3 DEF ForecastInv, CacheIsNew, NotBefore, Present
  <2> QED
    BY <2>4, <2>5, <2>6, <2>7, <2>8 DEF ForecastInv
<1> QED
  BY <1>5, <1>6

(* What reading an entry leaves of the work on a request.                  *)
Reads(g) ==
  /\ work'[g] \in Work
  /\ work'[g].query = work[g].query
  /\ work'[g].cancelled = work[g].cancelled
  /\ work'[g].answer.query = work[g].query
  /\ \/ work'[g].answer.since = stored
     \/ work'[g].answer.since = work[g].answer.since /\ work[g].left # 3

LEMMA WorkerReads ==
  ASSUME ForecastInv, NEW g \in DOMAIN work, Execute(g) \/ ReadEntry(g)
  PROVE  Reads(g)
<1>0. work[g] \in Work /\ stored \in Nat /\ period \in Nat
  BY DEF ForecastInv, ForecastTypes
<1>1. CASE Execute(g)
  <2> DEFINE left == IF work[g].cancelled \/ work[g].query = Nothing THEN 0 ELSE 2
             answer == Answer(work[g].query, stored, TRUE, period)
  <2>1. work' = [work EXCEPT ![g].left = left, ![g].answer = answer]
    BY <1>1 DEF Execute
  <2>2. left \in 0 .. 3
    OBVIOUS
  <2>3. answer \in Answers /\ answer.query = work[g].query /\ answer.since = stored
    BY <1>0 DEF Answer, Answers, Work
  <2> HIDE DEF left, answer
  <2> QED
    BY <1>0, <2>1, <2>2, <2>3 DEF Work, Reads
<1>2. CASE ReadEntry(g)
  <2>1. work[g].answer.query = work[g].query
    BY DEF ForecastInv, NoFuture
  <2>2. work[g].left \in {1, 2}
    BY <1>2 DEF ReadEntry, Running
  <2>3. CASE work' = [work EXCEPT ![g].left = 0]
    BY <1>0, <2>1, <2>2, <2>3 DEF Work, Reads
  <2>4. ASSUME NEW known \in BOOLEAN,
               work' = [work EXCEPT ![g].left = @ - 1, ![g].answer.known = @ /\ known]
        PROVE  Reads(g)
    BY <1>0, <2>1, <2>2, <2>4 DEF Work, Answers, Reads
  <2> QED
    BY <1>2, <2>3, <2>4 DEF ReadEntry
<1> QED
  BY <1>1, <1>2

(* What a worker begins to read is the history of now.                     *)
LEMMA WorkerInv ==
  ASSUME ForecastInv, NEW g \in DOMAIN work, Execute(g) \/ ReadEntry(g)
  PROVE  ForecastInv'
<1>1. UNCHANGED <<enabled, stored, told, revision, policies, period, generation, cache, shown>>
  BY DEF Execute, ReadEntry, outside
<1>2. work[g] \in Work /\ stored \in Nat /\ period \in Nat
  BY DEF ForecastInv, ForecastTypes
<1>3. /\ DOMAIN work' = DOMAIN work
      /\ \A h \in DOMAIN work : h # g => work'[h] = work[h]
  BY DEF Execute, ReadEntry
<1>4. Reads(g)
  BY WorkerReads
<1>5. ForecastTypes'
  BY <1>1, <1>3, <1>4 DEF Reads, ForecastInv, ForecastTypes
<1>6. OneAsked'
  BY <1>1, <1>3, <1>4 DEF Reads, ForecastInv, OneAsked
<1>7. NoFuture'
  BY <1>1, <1>2, <1>3, <1>4 DEF Reads, ForecastInv, NoFuture
<1>8. LiveIsNew'
  BY <1>1, <1>3, <1>4 DEF Reads, ForecastInv, ForecastTypes, NoFuture, LiveIsNew, NotBefore, Present
<1>9. CacheIsNew'
  BY <1>1, <1>3, <1>4 DEF Reads, ForecastInv, CacheIsNew, NotBefore, Present
<1> QED
  BY <1>5, <1>6, <1>7, <1>8, <1>9 DEF ForecastInv

(* What is dropped shows nothing; what is shown was live until now.        *)
LEMMA FinishInv ==
  ASSUME ForecastInv, NEW g \in DOMAIN work, Finish(g)
  PROVE  ForecastInv'
<1>1. UNCHANGED <<enabled, stored, told, revision, policies, period, generation>>
      /\ work[g].left = 0
  BY DEF Finish, outside
<1>2. /\ DOMAIN work' = DOMAIN work \ {g}
      /\ \A h \in DOMAIN work' : work'[h] = work[h]
  BY DEF Finish, Restrict
<1>3. /\ work[g] \in Work /\ work[g].answer \in Answers
      /\ work[g].answer.query = work[g].query
      /\ work[g].answer.since <= stored /\ work[g].query.policies <= policies
  BY DEF ForecastInv, ForecastTypes, NoFuture, Work
<1>4. OneAsked'
  BY <1>1, <1>2 DEF ForecastInv, OneAsked
<1>5. CASE UNCHANGED <<shown, cache, cacheOrder>>
  <2>1. ForecastTypes' /\ NoFuture'
    BY <1>1, <1>2, <1>5 DEF ForecastInv, ForecastTypes, NoFuture
  <2>2. LiveIsNew' /\ CacheIsNew'
    BY <1>1, <1>2, <1>5 DEF ForecastInv, LiveIsNew, CacheIsNew, NotBefore, Present
  <2> QED
    BY <1>4, <2>1, <2>2 DEF ForecastInv
<1>6. CASE g = generation /\ ~work[g].cancelled /\ ~UNCHANGED <<shown, cache, cacheOrder>>
  <2>1. shown' = [generation |-> g, answer |-> work[g].answer]
    BY <1>6 DEF Finish
  <2>2. /\ DOMAIN cache' \subseteq DOMAIN cache \union {work[g].query}
        /\ \A q \in DOMAIN cache' :
             cache'[q] = IF q = work[g].query THEN work[g].answer ELSE cache[q]
    BY <1>6 DEF Finish
  <2>3. \A h \in DOMAIN work' : work'[h].cancelled
    BY <1>2, <1>6 DEF ForecastInv, OneAsked
  <2>4. ForecastTypes'
    BY <1>1, <1>2, <1>3, <2>1, <2>2 DEF ForecastInv, ForecastTypes
  <2>5. NoFuture'
    BY <1>1, <1>2, <1>3, <2>1, <2>2 DEF ForecastInv, NoFuture
  <2>6. LiveIsNew'
    BY <2>3 DEF LiveIsNew
  <2>7. CacheIsNew'
    <3> SUFFICES ASSUME Present' \in DOMAIN cache'
                 PROVE  NotBefore(cache[Present])' /\ cache'[Present'].since >= told'
      BY <2>3 DEF CacheIsNew
    <3>1. Present' = Present
      BY <1>1 DEF Present
    <3>2. CASE Present = work[g].query
      <4>1. cache'[Present] = work[g].answer /\ work[g].answer.since >= told
        BY <1>1, <1>6, <2>2, <3>1, <3>2 DEF ForecastInv, LiveIsNew
      <4> QED
        BY <1>1, <1>3, <2>1, <3>1, <4>1 DEF NotBefore, Answers, Queries
    <3>3. CASE Present # work[g].query
      <4>1. Present \in DOMAIN cache /\ cache'[Present] = cache[Present]
        BY <2>2, <3>1, <3>3
      <4>2. cache[Present].since >= told /\ work[g].query = Nothing
        BY <1>6, <3>3, <4>1 DEF ForecastInv, CacheIsNew
      <4> QED
        BY <1>1, <1>3, <2>1, <3>1, <4>1, <4>2 DEF NotBefore
    <3> QED
      BY <3>2, <3>3
  <2> QED
    BY <1>4, <2>4, <2>5, <2>6, <2>7 DEF ForecastInv
<1> QED
  BY <1>5, <1>6 DEF Finish

LEMMA StepInv == ForecastInv /\ [Next]_vars => ForecastInv'
<1> SUFFICES ASSUME ForecastInv, [Next]_vars PROVE ForecastInv'
  OBVIOUS
<1>1. /\ stored \in Nat /\ told \in Nat /\ told <= stored /\ policies \in Nat
      /\ revision \in Nat /\ period \in Nat /\ enabled \in BOOLEAN
  BY DEF ForecastInv, ForecastTypes, NoFuture
<1>2. CASE Record
  BY <1>1, <1>2, ChangeInv DEF Record
<1>3. CASE PruneReported
  BY <1>1, <1>3, ChangeInv DEF PruneReported
<1>4. CASE Prune
  BY <1>1, <1>4, ChangeInv DEF Prune, model
<1>5. CASE PolicyChanged
  BY <1>1, <1>5, ChangeInv DEF PolicyChanged
<1>6. CASE SwitchForecasts
  <2>1. enabled' \in BOOLEAN
    BY <1>1, <1>6 DEF SwitchForecasts
  <2> QED
    BY <1>1, <1>6, <2>1, ChangeInv DEF SwitchForecasts, model
<1>7. CASE UserRefresh \/ PeriodEnds
  BY <1>1, <1>7, ChangeInv DEF UserRefresh, PeriodEnds, model
<1>8. CASE Start
  BY <1>8, StartInv
<1>9. CASE Workers
  BY <1>9, WorkerInv, FinishInv DEF Workers
<1>10. CASE UNCHANGED vars
  BY <1>1, <1>10, ChangeInv DEF vars, outside, model
<1> QED
  BY <1>2, <1>3, <1>4, <1>5, <1>6, <1>7, <1>8, <1>9, <1>10 DEF Next

LEMMA AlwaysForecastInv == Spec => []ForecastInv
<1> QED
  BY InitInv, StepInv, PTL DEF Spec

-----------------------------------------------------------------------------
(* The order of the cache *)

(* The order lists what the cache holds, each answer once; an answer that  *)
(* is waited for is not among them, since it would have been served.       *)
OrderInv ==
  /\ cacheOrder \in Seq(Queries) /\ Len(cacheOrder) <= MaxCached
  /\ IsInjective(cacheOrder)
  /\ DOMAIN cache = ToSet(cacheOrder)
  /\ \A g \in DOMAIN work : ~work[g].cancelled => work[g].query \notin DOMAIN cache

Ranges ==
  /\ pruning \in BOOLEAN /\ timer \in BOOLEAN /\ requests \in Nat
  /\ \A g \in DOMAIN work : g \in 1 .. generation
  /\ shown \in [generation : 0 .. generation, answer : Answers]

LEMMA InitOrder == Init => OrderInv /\ Ranges
<1> SUFFICES ASSUME Init PROVE OrderInv /\ Ranges
  OBVIOUS
<1>1. cacheOrder = <<>> /\ cache = <<>> /\ work = <<>>
  BY DEF Init
<1>2. DOMAIN cache = {} /\ ToSet(cacheOrder) = {} /\ IsInjective(cacheOrder)
  BY <1>1 DEF ToSet, IsInjective
<1>3. cacheOrder \in Seq(Queries) /\ Len(cacheOrder) <= MaxCached
  BY <1>1, QueriesAssumption
<1>4. shown = [generation |-> 0, answer |-> Answer(Nothing, 0, TRUE, 0)] /\ generation = 0
  BY DEF Init
<1>5. Answer(Nothing, 0, TRUE, 0) \in Answers
  BY DEF Nothing, Answer, Answers, Queries
<1>6. OrderInv
  BY <1>1, <1>2, <1>3 DEF OrderInv
<1>7. Ranges
  <2> DEFINE a == Answer(Nothing, 0, TRUE, 0)
  <2>0. shown = [generation |-> 0, answer |-> a] /\ generation = 0 /\ a \in Answers
    BY <1>4, <1>5
  <2> HIDE DEF a
  <2>1. shown \in [generation : 0 .. generation, answer : Answers]
    BY <2>0
  <2>2. \A g \in DOMAIN work : g \in 1 .. generation
    BY <1>1
  <2> QED
    BY <2>1, <2>2 DEF Init, Ranges
<1> QED
  BY <1>6, <1>7

(* An element that is new at the end of an order without repetitions.      *)
LEMMA AppendNew ==
  ASSUME NEW S, NEW s \in Seq(S), NEW e \in S, IsInjective(s), e \notin ToSet(s)
  PROVE  /\ Append(s, e) \in Seq(S) /\ Len(Append(s, e)) = Len(s) + 1
         /\ IsInjective(Append(s, e)) /\ ToSet(Append(s, e)) = ToSet(s) \union {e}
         /\ Append(s, e) # <<>>
<1> DEFINE t == Append(s, e)
<1>1. /\ t \in Seq(S) /\ Len(t) = Len(s) + 1 /\ DOMAIN t = 1 .. Len(s) + 1
      /\ DOMAIN s = 1 .. Len(s) /\ Len(s) \in Nat
      /\ \A i \in DOMAIN s : t[i] = s[i]
      /\ t[Len(s) + 1] = e
  OBVIOUS
<1> HIDE DEF t
<1>2. \A i \in DOMAIN s : s[i] # e
  BY DEF ToSet
<1>3. IsInjective(t)
  BY <1>1, <1>2 DEF IsInjective
<1>4. ToSet(t) = ToSet(s) \union {e}
  BY <1>1 DEF ToSet
<1>5. t # <<>>
  BY <1>1
<1> QED
  BY <1>1, <1>3, <1>4, <1>5 DEF t

(* The first element taken from one.                                       *)
LEMMA TailOfOrder ==
  ASSUME NEW S, NEW s \in Seq(S), s # <<>>, IsInjective(s)
  PROVE  /\ Tail(s) \in Seq(S) /\ Len(Tail(s)) = Len(s) - 1
         /\ IsInjective(Tail(s)) /\ ToSet(Tail(s)) = ToSet(s) \ {Head(s)}
<1> DEFINE t == Tail(s)
<1>1. /\ t \in Seq(S) /\ Len(t) = Len(s) - 1 /\ DOMAIN t = 1 .. Len(s) - 1
      /\ DOMAIN s = 1 .. Len(s) /\ Len(s) \in Nat \ {0}
      /\ \A i \in DOMAIN t : t[i] = s[i + 1]
      /\ Head(s) = s[1]
  OBVIOUS
<1> HIDE DEF t
<1>2. IsInjective(t)
  BY SMTT(30), <1>1 DEF IsInjective
<1>3. \A i \in DOMAIN t : t[i] # s[1]
  BY <1>1 DEF IsInjective
<1>4. \A i \in DOMAIN s : i # 1 => i - 1 \in DOMAIN t /\ s[i] = t[i - 1]
  BY <1>1
<1>5. ToSet(t) = ToSet(s) \ {s[1]}
  BY <1>1, <1>3, <1>4 DEF ToSet
<1> QED
  BY <1>1, <1>2, <1>5 DEF t

(* Only an answer that is finished changes the order of the cache; only a  *)
(* change that is reported empties it.                                     *)
LEMMA OrderKept ==
  ASSUME OrderInv, UNCHANGED <<cache, cacheOrder>>,
         \A g \in DOMAIN work' : ~work'[g].cancelled =>
           \/ g \in DOMAIN work /\ ~work[g].cancelled /\ work'[g].query = work[g].query
           \/ work'[g].query \notin DOMAIN cache
  PROVE  OrderInv'
BY DEF OrderInv

LEMMA OrderEmptied ==
  ASSUME cache' = <<>>, cacheOrder' = <<>>
  PROVE  OrderInv'
<1>1. DOMAIN cache' = {} /\ ToSet(cacheOrder') = {} /\ IsInjective(cacheOrder')
  BY DEF ToSet, IsInjective
<1>2. cacheOrder' \in Seq(Queries) /\ Len(cacheOrder') <= MaxCached
  BY QueriesAssumption
<1> QED
  BY <1>1, <1>2 DEF OrderInv

LEMMA FinishOrder ==
  ASSUME ForecastInv, OrderInv, NEW g \in DOMAIN work, Finish(g)
  PROVE  OrderInv'
<1>1. /\ DOMAIN work' = DOMAIN work \ {g}
      /\ \A h \in DOMAIN work' : work'[h] = work[h]
  BY DEF Finish, Restrict
<1>2. CASE UNCHANGED <<cache, cacheOrder>>
  BY <1>1, <1>2, OrderKept
<1>3. CASE g = generation /\ ~work[g].cancelled /\ ~UNCHANGED <<cache, cacheOrder>>
  <2> DEFINE query == work[g].query
             order == Append(cacheOrder, query)
             evicted == IF Len(order) > MaxCached THEN {Head(order)} ELSE {}
  <2>1. query \in Queries /\ query \notin DOMAIN cache
    BY <1>3 DEF OrderInv, ForecastInv, ForecastTypes, Work
  <2>2. /\ cacheOrder' = IF evicted = {} THEN order ELSE Tail(order)
        /\ DOMAIN cache' = (DOMAIN cache \union {query}) \ evicted
    BY <1>3, <2>1 DEF Finish
  <2>3. /\ order \in Seq(Queries) /\ Len(order) = Len(cacheOrder) + 1 /\ IsInjective(order)
        /\ ToSet(order) = DOMAIN cache \union {query} /\ order # <<>>
    BY <2>1, AppendNew DEF OrderInv
  <2>4. MaxCached \in Nat /\ Len(cacheOrder) \in Nat /\ Len(cacheOrder) <= MaxCached
    BY QueriesAssumption DEF OrderInv
  <2> HIDE DEF order, query
  <2>5. /\ Tail(order) \in Seq(Queries) /\ Len(Tail(order)) = Len(order) - 1
        /\ IsInjective(Tail(order)) /\ ToSet(Tail(order)) = ToSet(order) \ {Head(order)}
    BY <2>3, TailOfOrder
  <2>6. \A h \in DOMAIN work' : work'[h].cancelled
    BY <1>1, <1>3 DEF ForecastInv, OneAsked
  <2>7. CASE Len(order) > MaxCached
    <3>1. cacheOrder' = Tail(order) /\ DOMAIN cache' = ToSet(cacheOrder')
      BY <2>2, <2>3, <2>5, <2>7
    <3> QED
      BY <2>3, <2>4, <2>5, <2>6, <3>1 DEF OrderInv
  <2>8. CASE ~(Len(order) > MaxCached)
    <3>1. cacheOrder' = order /\ DOMAIN cache' = ToSet(cacheOrder')
      BY <2>2, <2>3, <2>8
    <3> QED
      BY <2>3, <2>4, <2>6, <2>8, <3>1 DEF OrderInv
  <2> QED
    BY <2>7, <2>8
<1> QED
  BY <1>2, <1>3 DEF Finish

LEMMA StepOrder == ForecastInv /\ OrderInv /\ [Next]_vars => OrderInv'
<1> SUFFICES ASSUME ForecastInv, OrderInv, [Next]_vars PROVE OrderInv'
  OBVIOUS
<1>1. CASE Record \/ PruneReported \/ PolicyChanged
  BY <1>1, OrderEmptied DEF Record, PruneReported, PolicyChanged
<1>2. CASE Prune \/ SwitchForecasts \/ UserRefresh \/ PeriodEnds \/ UNCHANGED vars
  BY <1>2, OrderKept DEF Prune, SwitchForecasts, UserRefresh, PeriodEnds, vars, model
<1>3. CASE Start
  <2>1. UNCHANGED <<cache, cacheOrder>>
    BY <1>3 DEF Start
  <2>2. DOMAIN Cancelled = DOMAIN work /\ \A g \in DOMAIN work : Cancelled[g].cancelled
    BY DEF Cancelled, ForecastInv, ForecastTypes, Work
  <2>3. CASE Query \in DOMAIN cache
    BY <1>3, <2>1, <2>2, <2>3, OrderKept DEF Start
  <2>4. CASE Query \notin DOMAIN cache
    <3>1. generation + 1 \notin DOMAIN work
      BY DEF ForecastInv, ForecastTypes
    <3> DEFINE w == [query |-> Query, cancelled |-> FALSE, left |-> 3,
                     answer |-> Answer(Query, 0, TRUE, 0)]
    <3>2. /\ DOMAIN work' = DOMAIN work \union {generation + 1}
          /\ \A g \in DOMAIN work : work'[g] = Cancelled[g]
          /\ work'[generation + 1] = w
      BY <1>3, <2>4, <3>1 DEF Start
    <3>3. w.query = Query
      OBVIOUS
    <3> HIDE DEF w
    <3> QED
      BY <2>1, <2>2, <2>4, <3>2, <3>3, OrderKept
  <2> QED
    BY <2>3, <2>4
<1>4. ASSUME NEW g \in DOMAIN work, Execute(g) \/ ReadEntry(g)
      PROVE  OrderInv'
  <2>1. UNCHANGED <<cache, cacheOrder>>
    BY <1>4 DEF Execute, ReadEntry
  <2>2. /\ DOMAIN work' = DOMAIN work
        /\ \A h \in DOMAIN work : h # g => work'[h] = work[h]
    BY <1>4 DEF Execute, ReadEntry
  <2>3. work'[g].query = work[g].query /\ work'[g].cancelled = work[g].cancelled
    BY <1>4, WorkerReads DEF Reads
  <2> QED
    BY <2>1, <2>2, <2>3, OrderKept
<1> QED
  BY <1>1, <1>2, <1>3, <1>4, FinishOrder DEF Next, Workers

(* The small ranges TypeOK adds to ForecastTypes.                          *)
LEMMA StepRanges == ForecastInv /\ Ranges /\ [Next]_vars => Ranges'
<1> SUFFICES ASSUME ForecastInv, Ranges, [Next]_vars PROVE Ranges'
  OBVIOUS
<1>1. generation \in Nat
  BY DEF ForecastInv, ForecastTypes
<1>2. CASE Record \/ Prune \/ PruneReported \/ PolicyChanged \/ SwitchForecasts
           \/ UserRefresh \/ PeriodEnds \/ UNCHANGED vars
  <2>1. UNCHANGED <<work, shown, generation>> /\ requests' \in {requests, requests + 1}
    BY <1>2 DEF Record, Prune, PruneReported, PolicyChanged, SwitchForecasts, UserRefresh,
       PeriodEnds, vars, outside, model
  <2>2. pruning' \in BOOLEAN
    BY <1>2 DEF Record, Prune, PruneReported, PolicyChanged, SwitchForecasts, UserRefresh,
       PeriodEnds, vars, outside, model, Ranges
  <2>3. timer' \in BOOLEAN
    BY <1>2 DEF Record, Prune, PruneReported, PolicyChanged, SwitchForecasts, UserRefresh,
       PeriodEnds, vars, outside, model, Ranges
  <2>4. requests' \in Nat
    BY <2>1 DEF Ranges
  <2> QED
    BY <2>1, <2>2, <2>3, <2>4 DEF Ranges
<1>4. CASE Start
  <2>1. generation' = generation + 1 /\ timer' = FALSE /\ UNCHANGED <<pruning, requests>>
    BY <1>4 DEF Start, outside
  <2>2. DOMAIN work' \subseteq DOMAIN work \union {generation + 1}
    BY <1>4 DEF Start, Cancelled
  <2>3. shown' \in [generation : 0 .. generation + 1, answer : Answers]
    <3>1. CASE Query \in DOMAIN cache
      <4>1. shown' = [generation |-> generation + 1, answer |-> cache[Query]]
        BY <1>4, <3>1 DEF Start
      <4> QED
        BY <1>1, <3>1, <4>1 DEF ForecastInv, ForecastTypes
    <3>2. CASE Query \notin DOMAIN cache
      <4>1. shown' = shown
        BY <1>4, <3>2 DEF Start
      <4> QED
        BY <1>1, <4>1 DEF Ranges
    <3> QED
      BY <3>1, <3>2
  <2>4. \A g \in DOMAIN work' : g \in 1 .. generation + 1
    BY <1>1, <2>2 DEF Ranges
  <2> QED
    BY <1>1, <2>1, <2>3, <2>4 DEF Ranges
<1>5. ASSUME NEW g \in DOMAIN work, Execute(g) \/ ReadEntry(g) \/ Finish(g)
      PROVE  Ranges'
  <2>1. UNCHANGED <<generation, pruning, requests, timer>> /\ DOMAIN work' \subseteq DOMAIN work
    BY <1>5 DEF Execute, ReadEntry, Finish, Restrict, outside
  <2>2. shown' = shown \/ shown' = [generation |-> g, answer |-> work[g].answer]
    BY <1>5 DEF Execute, ReadEntry, Finish
  <2>3. shown' \in [generation : 0 .. generation, answer : Answers]
    BY <1>1, <2>2 DEF Ranges, ForecastInv, ForecastTypes, Work
  <2> QED
    BY <2>1, <2>3 DEF Ranges
<1> QED
  BY <1>2, <1>4, <1>5 DEF Next, Workers

-----------------------------------------------------------------------------
(* At most one worker is waited for, and it is the one of the last request *)
(* (guardrailmodel.cpp, start).                                            *)
THEOREM WaitsForTheLast == Spec => []OneAsked
<1>1. ForecastInv => OneAsked
  BY DEF ForecastInv
<1> QED
  BY <1>1, AlwaysForecastInv, PTL

(* No request is answered from a history older than the last change that   *)
(* was reported (guardrailmodel.cpp, cacheKey and invalidateCache).        *)
THEOREM CacheIsCurrent == Spec => []ServesNothingOld
<1>1. ForecastInv => ServesNothingOld
  BY DEF ForecastInv, NoFuture, CacheIsNew, ServesNothingOld, Query, Present
<1> QED
  BY <1>1, AlwaysForecastInv, PTL

(* All of the invariant the runs check of the forecasts: the cache's order *)
(* lists what it holds, each answer once and no more than it may hold, and *)
(* the two facts above (guardrailmodel.cpp, start, finish and              *)
(* invalidateCache).                                                       *)
THEOREM ForecastsStayCurrent == Spec => []ForecastsAreCurrent
<1>1. ForecastInv /\ OrderInv /\ Ranges => ForecastsAreCurrent
  <2> SUFFICES ASSUME ForecastInv, OrderInv, Ranges PROVE ForecastsAreCurrent
    OBVIOUS
  <2>1. TypeOK
    <3>1. {enabled, pruning, timer} \subseteq BOOLEAN
      BY DEF ForecastInv, ForecastTypes, Ranges
    <3>2. {stored, told, revision, policies, period, requests, generation} \subseteq Nat
      BY DEF ForecastInv, ForecastTypes, Ranges
    <3>3. \A g \in DOMAIN work :
            /\ g \in 1 .. generation
            /\ work[g] \in [query : Queries, cancelled : BOOLEAN, left : 0 .. 3,
                            answer : Answers]
      BY DEF ForecastInv, ForecastTypes, Work, Ranges
    <3>4. Range(cache) \subseteq Answers
      BY DEF ForecastInv, ForecastTypes, Range
    <3> QED
      BY <3>1, <3>2, <3>3, <3>4 DEF TypeOK, OrderInv, Ranges
  <2>2. OneAsked
    BY DEF ForecastInv
  <2>3. ServesNothingOld
    BY DEF ForecastInv, NoFuture, CacheIsNew, ServesNothingOld, Query, Present
  <2> QED
    BY <2>1, <2>2, <2>3 DEF ForecastsAreCurrent
<1> QED
  BY <1>1, InitOrder, StepOrder, StepRanges, AlwaysForecastInv, PTL DEF Spec

(* What is shown never goes back to an older history or policy, in         *)
(* whatever order the workers finish (guardrailmodel.cpp, finish).         *)
THEOREM ShownNeverGoesBack == Spec => NeverBack
<1> DEFINE Keeps == shown.answer.query # Nothing /\ shown'.answer.query # Nothing =>
                      /\ shown'.answer.since >= shown.answer.since
                      /\ shown'.answer.query.policies >= shown.answer.query.policies
<1>1. ForecastInv /\ [Next]_vars => [Keeps]_vars
  <2> SUFFICES ASSUME ForecastInv, [Next]_vars PROVE Keeps
    OBVIOUS
  <2>1. CASE shown' = shown
    BY <2>1 DEF ForecastInv, ForecastTypes, Answers, Queries
  <2>2. CASE Start /\ shown' # shown
    <3>1. Query \in DOMAIN cache /\ shown'.answer = cache[Query]
      <4>1. Query \in DOMAIN cache
        BY <2>2, Zenon DEF Start
      <4> QED
        BY <2>2, <4>1 DEF Start
    <3>2. cache[Query].query = Query
      BY <3>1 DEF ForecastInv, NoFuture
    <3>3. CASE Query = Nothing
      BY <3>1, <3>2, <3>3
    <3>4. CASE Query = Present
      BY <3>1, <3>4 DEF ForecastInv, CacheIsNew, NotBefore
    <3> QED
      BY <3>3, <3>4 DEF Query, Present
  <2>3. ASSUME NEW g \in DOMAIN work, Finish(g), shown' # shown
        PROVE  Keeps
    <3>1. work[g].left = 0 /\ ~work[g].cancelled /\ shown'.answer = work[g].answer
      BY <2>3 DEF Finish
    <3> QED
      BY <3>1 DEF ForecastInv, LiveIsNew, NotBefore
  <2> QED
    BY <2>1, <2>2, <2>3 DEF Next, Workers, Record, Prune, PruneReported, PolicyChanged,
       SwitchForecasts, UserRefresh, PeriodEnds, Execute, ReadEntry, vars, model
<1> QED
  BY <1>1, AlwaysForecastInv, PTL DEF Spec, NeverBack

-----------------------------------------------------------------------------
(* The history view *)

HistoryAnswers == [ok : BOOLEAN, of : SUBSET HistorySources, version : Nat]
HistoryWork ==
  [kind : {"catalog", "series"}, id : Nat, rows : SUBSET HistorySources, done : BOOLEAN,
   answer : HistoryAnswers]

ViewTypes ==
  /\ sVersion \in Nat /\ catalogRequest \in Nat /\ seriesRequest \in Nat /\ sFailures \in Nat
  /\ sHistory \subseteq HistorySources /\ catalog \subseteq HistorySources
  /\ sWorkers \subseteq HistoryWork
  /\ series \in HistoryAnswers /\ sLoading \in BOOLEAN

(* No worker has a number yet to come, and what it found is what it was    *)
(* asked for.                                                              *)
Numbered ==
  \A w \in sWorkers :
    /\ w.kind = "catalog" => w.id <= catalogRequest
    /\ w.kind = "series" => w.id <= seriesRequest
    /\ w.kind = "series" /\ w.done /\ w.answer.ok => w.answer.of = w.rows

(* While no change waits for the timer and no query failed, what the last  *)
(* request has found already is the history.                               *)
CatalogKept ==
  ~catalogTimer /\ sFailures = 0 =>
    /\ ~catalogLoading => catalog = sHistory
    /\ \A w \in sWorkers :
         w.kind = "catalog" /\ w.id = catalogRequest /\ w.done => w.answer.of = sHistory

(* The last request for a series is one for the selection, unless there is *)
(* nothing to ask for or a refresh is still to come.                       *)
SelectionKept ==
  ~later /\ History!Asked # {} =>
    /\ ~sLoading /\ series.ok => series.of = History!Asked
    /\ \A w \in sWorkers :
         w.kind = "series" /\ w.id = seriesRequest => w.rows = History!Asked

ViewInv == ViewTypes /\ Numbered /\ CatalogKept /\ SelectionKept

LEMMA ViewStarts == History!Init => ViewInv
<1> SUFFICES ASSUME History!Init PROVE ViewInv
  OBVIOUS
<1>1. /\ sVersion = 0 /\ sHistory \subseteq HistorySources /\ catalog = {} /\ catalogRequest = 1
      /\ catalogLoading /\ seriesRequest = 0 /\ sLoading = FALSE /\ sFailures = 0
      /\ series = [ok |-> FALSE, of |-> {}, version |-> 0]
      /\ sWorkers = {[kind |-> "catalog", id |-> 1, rows |-> {}, done |-> FALSE,
                      answer |-> [ok |-> FALSE, of |-> {}, version |-> 0]]}
  BY DEF History!Init, History!NoAnswer, History!Worker
<1>2. ViewTypes
  <2>1. [ok |-> FALSE, of |-> {}, version |-> 0] \in HistoryAnswers
    BY DEF HistoryAnswers
  <2>2. sWorkers \subseteq HistoryWork
    BY <1>1, <2>1 DEF HistoryWork
  <2> QED
    BY <1>1, <2>1, <2>2 DEF ViewTypes
<1>3. Numbered /\ CatalogKept
  BY <1>1 DEF Numbered, CatalogKept
<1>4. SelectionKept
  BY <1>1 DEF SelectionKept
<1> QED
  BY <1>2, <1>3, <1>4 DEF ViewInv

(* A refresh asks for the selection, or there is nothing to ask for; the   *)
(* workers it leaves have lower numbers.                                   *)
LEMMA RefreshAsks ==
  ASSUME ViewInv, NEW known \in SUBSET HistorySources, NEW others \in SUBSET sWorkers,
         History!Refresh(known, others), catalog' = known
  PROVE  /\ seriesRequest' \in Nat /\ sWorkers' \subseteq HistoryWork
         /\ series' \in HistoryAnswers /\ sLoading' \in BOOLEAN
         /\ \A w \in sWorkers' :
              \/ w \in others
              \/ w.kind = "series" /\ ~w.done /\ w.id = seriesRequest'
         /\ seriesRequest' >= seriesRequest
         /\ SelectionKept'
<1> DEFINE rows == History!Rows(selected', known)
<1>1. rows \subseteq HistorySources /\ History!Asked' = rows
  BY DEF History!Rows, History!Asked, History!Compare
<1>2. series' \in HistoryAnswers /\ ~series'.ok
  BY DEF History!Refresh, History!NoAnswer, HistoryAnswers
<1>3. CASE rows = {}
  <2>1. sLoading' = FALSE /\ sWorkers' = others /\ seriesRequest' = seriesRequest
    BY <1>3 DEF History!Refresh
  <2>2. SelectionKept'
    BY <1>1, <1>3 DEF SelectionKept
  <2>3. sLoading' \in BOOLEAN
    BY <2>1
  <2>4. seriesRequest \in Nat /\ sWorkers \subseteq HistoryWork
    BY DEF ViewInv, ViewTypes
  <2> HIDE DEF rows
  <2> QED
    BY <1>2, <2>1, <2>2, <2>3, <2>4
<1>4. CASE rows # {}
  <2> DEFINE new == [kind |-> "series", id |-> seriesRequest + 1, rows |-> rows, done |-> FALSE,
                     answer |-> [ok |-> FALSE, of |-> {}, version |-> 0]]
  <2>1. /\ sLoading' = TRUE /\ seriesRequest' = seriesRequest + 1
        /\ sWorkers' = others \cup {new}
    BY <1>4 DEF History!Refresh, History!Worker, History!NoAnswer
  <2>2. seriesRequest \in Nat /\ sWorkers \subseteq HistoryWork
        /\ \A w \in others : w.kind = "series" => w.id # seriesRequest + 1
    BY DEF ViewInv, ViewTypes, Numbered, HistoryWork
  <2> HIDE DEF rows
  <2>3. new \in HistoryWork
    BY <1>1, <2>2 DEF HistoryWork, HistoryAnswers
  <2>4. new.kind = "series" /\ ~new.done /\ new.id = seriesRequest' /\ new.rows = rows
    BY <2>1
  <2> HIDE DEF new
  <2> QED
    BY <1>1, <1>2, <2>1, <2>2, <2>3, <2>4 DEF SelectionKept
<1> QED
  BY <1>3, <1>4

LEMMA RefreshKeepsView ==
  ASSUME ViewInv, NEW others \in SUBSET sWorkers, History!Refresh(catalog, others),
         UNCHANGED <<sVersion, sHistory, catalogTimer, catalog, catalogRequest,
                     catalogLoading, sFailures>>
  PROVE  ViewInv'
<1>1. catalog \in SUBSET HistorySources
  BY DEF ViewInv, ViewTypes
<1>2. /\ seriesRequest' \in Nat /\ sWorkers' \subseteq HistoryWork
      /\ series' \in HistoryAnswers /\ sLoading' \in BOOLEAN
      /\ \A w \in sWorkers' :
           \/ w \in sWorkers
           \/ w.kind = "series" /\ ~w.done /\ w.id = seriesRequest'
      /\ seriesRequest' >= seriesRequest
      /\ SelectionKept'
  BY <1>1, RefreshAsks
<1>3. ViewTypes'
  BY <1>2 DEF ViewInv, ViewTypes
<1>4. Numbered'
  BY <1>2 DEF ViewInv, ViewTypes, Numbered, HistoryWork
<1>5. CatalogKept'
  BY <1>2 DEF ViewInv, CatalogKept
<1> QED
  BY <1>2, <1>3, <1>4, <1>5 DEF ViewInv

(* A catalog that is accepted was read after the last change.              *)
LEMMA DeliverCatalogKeeps ==
  ASSUME ViewInv, NEW w \in sWorkers, History!DeliverCatalog(w)
  PROVE  ViewInv'
<1>1. w \in HistoryWork /\ w.done /\ w.kind = "catalog"
      /\ UNCHANGED <<sVersion, sHistory, later, catalogTimer, catalogRequest, sFailures>>
  BY DEF ViewInv, ViewTypes, History!DeliverCatalog
<1>2. CASE w.id = catalogRequest
  <2>1. /\ catalogLoading' = FALSE /\ catalog' = w.answer.of
        /\ History!Refresh(w.answer.of, sWorkers \ {w})
    BY <1>2 DEF History!DeliverCatalog
  <2>2. w.answer.of \in SUBSET HistorySources /\ sWorkers \ {w} \in SUBSET sWorkers
    BY <1>1 DEF HistoryWork, HistoryAnswers
  <2>3. /\ seriesRequest' \in Nat /\ sWorkers' \subseteq HistoryWork
        /\ series' \in HistoryAnswers /\ sLoading' \in BOOLEAN
        /\ \A v \in sWorkers' :
             \/ v \in sWorkers
             \/ v.kind = "series" /\ ~v.done /\ v.id = seriesRequest'
        /\ seriesRequest' >= seriesRequest
        /\ SelectionKept'
    BY <2>1, <2>2, RefreshAsks
  <2>4. ViewTypes'
    BY <1>1, <2>1, <2>2, <2>3 DEF ViewInv, ViewTypes
  <2>5. Numbered'
    BY <1>1, <2>3 DEF ViewInv, ViewTypes, Numbered, HistoryWork
  <2>6. CatalogKept'
    BY <1>1, <1>2, <2>1, <2>3 DEF ViewInv, CatalogKept
  <2> QED
    BY <2>3, <2>4, <2>5, <2>6 DEF ViewInv
<1>3. CASE w.id # catalogRequest
  <2>1. /\ sWorkers' = sWorkers \ {w}
        /\ UNCHANGED <<selected, catalog, catalogLoading, seriesRequest, sLoading, series>>
    BY <1>3 DEF History!DeliverCatalog
  <2> QED
    BY <1>1, <2>1 DEF ViewInv, ViewTypes, Numbered, CatalogKept, SelectionKept, History!Asked
<1> QED
  BY <1>2, <1>3

LEMMA DeliverSeriesKeeps ==
  ASSUME ViewInv, NEW w \in sWorkers, History!DeliverSeries(w)
  PROVE  ViewInv'
<1>1. /\ w \in HistoryWork /\ w.done /\ w.kind = "series"
      /\ sWorkers' = sWorkers \ {w}
      /\ UNCHANGED <<sVersion, sHistory, catalogTimer, selected, later, catalog,
                     catalogRequest, catalogLoading, seriesRequest, sFailures>>
      /\ \/ w.id = seriesRequest /\ sLoading' = FALSE /\ series' = w.answer
         \/ UNCHANGED <<sLoading, series>>
  BY DEF ViewInv, ViewTypes, History!DeliverSeries
<1>2. History!Asked' = History!Asked
  BY <1>1 DEF History!Asked
<1>3. ViewTypes'
  BY <1>1 DEF ViewInv, ViewTypes, HistoryWork
<1>4. Numbered' /\ CatalogKept'
  BY <1>1 DEF ViewInv, Numbered, CatalogKept
<1>5. SelectionKept'
  BY <1>1, <1>2 DEF ViewInv, Numbered, SelectionKept
<1> QED
  BY <1>3, <1>4, <1>5 DEF ViewInv

(* A worker reads the history of now, or fails.                            *)
LEMMA RunQueryKeeps ==
  ASSUME ViewInv, NEW w \in sWorkers, History!RunCatalog(w) \/ History!RunSeries(w)
  PROVE  ViewInv'
<1>1. PICK found \in {sHistory, w.rows}, ok \in BOOLEAN :
        /\ \/ w.kind = "catalog" /\ found = sHistory
           \/ w.kind = "series" /\ found = w.rows
        /\ sFailures' = sFailures + (IF ok THEN 0 ELSE 1)
        /\ sWorkers' = (sWorkers \ {w}) \cup
             {[w EXCEPT !.done = TRUE,
                        !.answer = [ok |-> ok, version |-> sVersion,
                                    of |-> IF ok THEN found ELSE {}]]}
        /\ UNCHANGED <<sVersion, sHistory, catalogTimer, selected, later, catalog,
                       catalogRequest, catalogLoading, seriesRequest, sLoading, series>>
  BY DEF History!RunCatalog, History!RunSeries, History!RunQuery, History!view
<1> DEFINE answer == [ok |-> ok, version |-> sVersion, of |-> IF ok THEN found ELSE {}]
           new == [w EXCEPT !.done = TRUE, !.answer = answer]
<1>2. /\ w \in HistoryWork /\ sVersion \in Nat /\ sFailures \in Nat
      /\ sHistory \subseteq HistorySources
  BY DEF ViewInv, ViewTypes
<1>3. answer \in HistoryAnswers /\ answer.ok = ok /\ (ok => answer.of = found)
  BY <1>1, <1>2 DEF HistoryAnswers, HistoryWork
<1> HIDE DEF answer
<1>4. /\ new \in HistoryWork /\ new.kind = w.kind /\ new.id = w.id /\ new.rows = w.rows
      /\ new.done /\ new.answer = answer
  BY <1>2, <1>3 DEF HistoryWork
<1>5. sWorkers' = (sWorkers \ {w}) \cup {new}
  BY <1>1 DEF answer
<1> HIDE DEF new
<1>6. History!Asked' = History!Asked
  BY <1>1 DEF History!Asked
<1>7. ViewTypes'
  BY <1>1, <1>2, <1>4, <1>5 DEF ViewInv, ViewTypes
<1>8. Numbered'
  BY <1>1, <1>3, <1>4, <1>5 DEF ViewInv, Numbered
<1>9. CatalogKept'
  <2>1. sFailures' = 0 => sFailures = 0 /\ ok
    BY <1>1, <1>2
  <2> QED
    BY <1>1, <1>3, <1>4, <1>5, <2>1 DEF ViewInv, CatalogKept
<1>10. SelectionKept'
  BY <1>1, <1>4, <1>5, <1>6 DEF ViewInv, SelectionKept
<1> QED
  BY <1>7, <1>8, <1>9, <1>10 DEF ViewInv

LEMMA RefreshCatalogKeeps ==
  ASSUME ViewInv, History!RefreshCatalog
  PROVE  ViewInv'
<1> DEFINE new == [kind |-> "catalog", id |-> catalogRequest + 1, rows |-> {}, done |-> FALSE,
                   answer |-> [ok |-> FALSE, of |-> {}, version |-> 0]]
<1>1. /\ catalogRequest' = catalogRequest + 1 /\ catalogLoading' = TRUE
      /\ sWorkers' = sWorkers \cup {new}
      /\ UNCHANGED <<sVersion, sHistory, selected, later, catalog, seriesRequest, sLoading,
                     series, sFailures>>
  BY DEF History!RefreshCatalog, History!Worker, History!NoAnswer
<1>2. catalogRequest \in Nat
  BY DEF ViewInv, ViewTypes
<1>3. /\ new \in HistoryWork /\ new.kind = "catalog" /\ new.id = catalogRequest + 1
      /\ ~new.done
  BY <1>2 DEF HistoryWork, HistoryAnswers
<1> HIDE DEF new
<1>4. History!Asked' = History!Asked
  BY <1>1 DEF History!Asked
<1>5. \A w \in sWorkers : w.id \in Nat
  BY DEF ViewInv, ViewTypes, HistoryWork
<1>6. ViewTypes' /\ Numbered' /\ SelectionKept'
  BY <1>1, <1>2, <1>3, <1>4, <1>5 DEF ViewInv, ViewTypes, Numbered, SelectionKept
<1>7. CatalogKept'
  BY <1>1, <1>2, <1>3, <1>5 DEF ViewInv, Numbered, CatalogKept
<1> QED
  BY <1>6, <1>7 DEF ViewInv

LEMMA ViewKeeps == ViewInv /\ [History!Next]_(History!vars) => ViewInv'
<1> SUFFICES ASSUME ViewInv, [History!Next]_(History!vars) PROVE ViewInv'
  OBVIOUS
<1>1. ASSUME NEW s \in HistorySources, History!ChooseSource(s) PROVE ViewInv'
  BY <1>1 DEF History!ChooseSource, ViewInv, ViewTypes, Numbered, CatalogKept, SelectionKept
<1>2. CASE History!CallLater
  BY <1>2, RefreshKeepsView DEF History!CallLater
<1>3. ASSUME NEW c \in History!Selections, History!ChooseNow(c) PROVE ViewInv'
  BY <1>3, RefreshKeepsView DEF History!ChooseNow
<1>4. ASSUME NEW h \in SUBSET HistorySources, History!Change(h) PROVE ViewInv'
  <2>1. History!Asked' = History!Asked
    BY <1>4 DEF History!Asked, History!Change, History!view
  <2> QED
    BY <1>4, <2>1 DEF History!Change, History!view, ViewInv, ViewTypes, Numbered, CatalogKept,
                      SelectionKept
<1>5. CASE History!RefreshCatalog
  BY <1>5, RefreshCatalogKeeps
<1>6. ASSUME NEW w \in sWorkers, History!RunCatalog(w) \/ History!RunSeries(w) PROVE ViewInv'
  BY <1>6, RunQueryKeeps
<1>7. ASSUME NEW w \in sWorkers, History!DeliverCatalog(w) PROVE ViewInv'
  BY <1>7, DeliverCatalogKeeps
<1>8. ASSUME NEW w \in sWorkers, History!DeliverSeries(w) PROVE ViewInv'
  BY <1>8, DeliverSeriesKeeps
<1>9. CASE UNCHANGED History!vars
  BY <1>9 DEF History!vars, History!view, ViewInv, ViewTypes, Numbered, CatalogKept,
              SelectionKept, History!Asked
<1> QED
  BY <1>1, <1>2, <1>3, <1>4, <1>5, <1>6, <1>7, <1>8, <1>9 DEF History!Next, History!Loop

-----------------------------------------------------------------------------
(* The analyst view *)

(* A report that is awaited was asked for the days of its title, and no    *)
(* worker answers a request that was never made.                           *)
InsightsInv ==
  /\ aGeneration \in Nat
  /\ \A w \in aWorkers : w.id.n # 0
  /\ reportId = Insights!None \/ reportId.kind = reportDays
  /\ Insights!ReportOfItsPeriod

LEMMA InsightsStart == Insights!Init => InsightsInv
BY DEF Insights!Init, InsightsInv, Insights!ReportOfItsPeriod, Insights!Display

LEMMA RequestNumbered ==
  ASSUME InsightsInv, NEW id, id.n # 0, Insights!RequestAnalyst(id)
  PROVE  \A w \in aWorkers' : w.id.n # 0
BY DEF InsightsInv, Insights!RequestAnalyst

LEMMA InsightsKeep == InsightsInv /\ [Insights!Next]_(Insights!vars) => InsightsInv'
<1> SUFFICES ASSUME InsightsInv, [Insights!Next]_(Insights!vars) PROVE InsightsInv'
  OBVIOUS
<1>1. CASE Insights!OpenView
  <2> DEFINE id == [kind |-> Insights!Display, n |-> 1]
  <2>1. /\ Insights!RequestAnalyst(id) /\ aGeneration' = 1 /\ reportId' = Insights!None
        /\ report' = report
    BY <1>1 DEF Insights!OpenView
  <2>2. \A w \in aWorkers' : w.id.n # 0
    <3>1. id.n # 0
      OBVIOUS
    <3> HIDE DEF id
    <3> QED
      BY <2>1, <3>1, RequestNumbered
  <2> QED
    BY <2>1, <2>2 DEF InsightsInv, Insights!ReportOfItsPeriod
<1>2. CASE Insights!CloseView
  BY <1>2 DEF Insights!CloseView, InsightsInv, Insights!ReportOfItsPeriod
<1>3. ASSUME NEW kind, NEW id, id = Insights!NextId(kind) PROVE id.n # 0 /\ id.kind = kind
  BY <1>3 DEF Insights!NextId, InsightsInv
<1>4. CASE Insights!RefreshData
  <2>1. /\ Insights!RequestAnalyst(Insights!NextId(Insights!Display))
        /\ aGeneration' = aGeneration + 1
        /\ UNCHANGED <<reportId, reportDays, report>>
    BY <1>4 DEF Insights!RefreshData
  <2> QED
    BY <1>3, <2>1, RequestNumbered DEF InsightsInv, Insights!ReportOfItsPeriod
<1>5. ASSUME NEW days, Insights!RequestReport(days) PROVE InsightsInv'
  <2>1. /\ Insights!RequestAnalyst(Insights!NextId(days)) /\ reportId' = Insights!NextId(days)
        /\ aGeneration' = aGeneration + 1 /\ reportDays' = days /\ report' = report
    BY <1>5 DEF Insights!RequestReport
  <2> QED
    BY <1>3, <2>1, RequestNumbered DEF InsightsInv, Insights!ReportOfItsPeriod
<1>6. CASE Insights!Record
  BY <1>6 DEF Insights!Record, Insights!view, InsightsInv, Insights!ReportOfItsPeriod
<1>7. ASSUME NEW w \in aWorkers, Insights!Read(w) PROVE InsightsInv'
  <2> DEFINE next == [w EXCEPT !.left = @ - 1, !.seen = @ \cup {aVersion}]
  <2>1. /\ aWorkers' = (aWorkers \ {w}) \cup {next}
        /\ UNCHANGED <<aGeneration, reportId, reportDays, report>>
    BY <1>7 DEF Insights!Read, Insights!view
  <2>2. next.id = w.id
    OBVIOUS
  <2> HIDE DEF next
  <2> QED
    BY <2>1, <2>2 DEF InsightsInv, Insights!ReportOfItsPeriod
<1>8. ASSUME NEW w \in aWorkers, Insights!Deliver(w) PROVE InsightsInv'
  <2>1. CASE /\ w.id = reportId /\ report' = <<reportDays, w.id.kind>>
             /\ reportId' = Insights!None /\ UNCHANGED <<aGeneration, reportDays>>
    <3>1. reportId # Insights!None
      BY <2>1 DEF InsightsInv, Insights!None
    <3> QED
      BY <1>8, <2>1, <3>1 DEF Insights!Deliver, InsightsInv, Insights!ReportOfItsPeriod
  <2>2. CASE UNCHANGED <<reportId, report, aGeneration, reportDays>>
    BY <1>8, <2>2 DEF Insights!Deliver, InsightsInv, Insights!ReportOfItsPeriod
  <2> QED
    BY <1>8, <2>1, <2>2 DEF Insights!Deliver, Insights!view
<1>9. CASE UNCHANGED Insights!vars
  BY <1>9 DEF Insights!vars, Insights!view, InsightsInv, Insights!ReportOfItsPeriod
<1> QED
  BY <1>1, <1>2, <1>4, <1>5, <1>6, <1>7, <1>8, <1>9 DEF Insights!Next, Insights!Answering

(* UsageDatabase numbers the requests of a kind and tells only the answer  *)
(* of the last.  For any sources, periods, selections and failures, and in *)
(* whatever order the workers finish: unless a query failed the catalog is *)
(* the history once its last request was answered and no change waits, a   *)
(* chart shows the selection, and a report is the one of its title.        *)
THEOREM ViewsStayCurrent == History!Spec /\ Insights!Spec => []ViewsAreCurrent
<1>1. ViewInv => History!CatalogIsCurrent /\ History!ShowsTheSelection
  BY DEF ViewInv, CatalogKept, SelectionKept, History!CatalogIsCurrent,
         History!ShowsTheSelection
<1>2. InsightsInv => Insights!ReportOfItsPeriod
  BY DEF InsightsInv
<1>3. ViewInv /\ InsightsInv => ViewsAreCurrent
  BY <1>1, <1>2 DEF ViewsAreCurrent
<1> QED
  BY <1>3, ViewStarts, ViewKeeps, InsightsStart, InsightsKeep, PTL
     DEF History!Spec, Insights!Spec

-----------------------------------------------------------------------------
(* The activity of local tools *)

Monitor ==
  [watching : BOOLEAN, watched : SUBSET (Entries \cup {Root}), baseline : BOOLEAN,
   since : Int, snapshot : [Entries -> Int], running : BOOLEAN,
   scan : [since : Int, files : [Entries -> Int]],
   again : BOOLEAN, debounce : BOOLEAN, incomplete : BOOLEAN]

LocalTypes ==
  /\ clock \in Nat /\ disk \in [Entries -> Nat] /\ uncounted \in Int /\ m \in Monitor
  /\ lEnabled \in BOOLEAN /\ installed \in BOOLEAN /\ present \in BOOLEAN

(* What is in a folder is not older than the folder, and nothing is        *)
(* younger than the clock.                                                 *)
OnDisk ==
  \A e \in Entries :
    /\ disk[e] <= clock
    /\ disk[e] # 0 /\ Parent[e] # Root => disk[Parent[e]] # 0 /\ disk[Parent[e]] <= disk[e]

ReadBefore ==
  /\ 0 <= m.since /\ m.since <= clock
  /\ \A e \in Entries :
       /\ 0 <= m.snapshot[e] /\ m.snapshot[e] <= clock
       /\ -1 <= m.scan.files[e] /\ m.scan.files[e] <= clock

(* Only a monitor that watches scans, and its scan counts as the monitor   *)
(* stands.                                                                 *)
ScansWatched ==
  /\ m.running => m.watching /\ m.scan.since = IF m.baseline THEN m.since ELSE -1
  /\ m.debounce => m.watching
  /\ lEnabled /\ installed => m.watching

(* Younger than all that was read before this scan.                        *)
Younger(t) ==
  /\ m.baseline => t > m.since
  /\ \A f \in Local!Files : t > m.snapshot[f]

(* A scan that found no folder missed what was created in it since.        *)
CreatedMeanwhile ==
  m.running =>
    \A e \in Entries :
      Parent[e] # Root /\ disk[e] # 0 =>
        (m.scan.files[Parent[e]] = 0 => Younger(disk[e]))

(* The files this scan will find changed, as it and the disk stand, and    *)
(* those that changed after it read them.                                  *)
WasRead(f) == m.running /\ m.scan.files[f] # -1
Found(f) == IF WasRead(f) THEN m.scan.files[f] ELSE disk[f]
News(f, t) == t # 0 /\ (IF m.baseline THEN t > m.since ELSE t # m.snapshot[f])
Pending == {f \in Local!Files : News(f, Found(f))}
Missed == {f \in Local!Files : WasRead(f) /\ disk[f] # 0 /\ disk[f] # m.scan.files[f]}
Uncounted == Cardinality(Pending) + Cardinality(Missed)

(* Every one of them was a change of its own that was not counted yet.     *)
EnoughUncounted == uncounted >= 0 /\ (m.watching => uncounted >= Uncounted)

ActivityInv ==
  /\ LocalTypes /\ OnDisk /\ ReadBefore /\ ScansWatched /\ CreatedMeanwhile
  /\ EnoughUncounted /\ Local!CompleteWatchesAll

LEMMA FilesFinite ==
  ASSUME NEW T \in SUBSET Local!Files
  PROVE  IsFiniteSet(T) /\ Cardinality(T) \in Nat
<1>1. T \in SUBSET Entries
  BY DEF Local!Files
<1> QED
  BY <1>1, EntriesAssumption, FS_Subset, FS_CardinalityType

LEMMA FewerUncounted ==
  ASSUME Pending' \subseteq Pending, Missed' \subseteq Missed
  PROVE  Uncounted' <= Uncounted
<1>1. Pending \in SUBSET Local!Files /\ Missed \in SUBSET Local!Files
  BY DEF Pending, Missed
<1>2. /\ Cardinality(Pending') <= Cardinality(Pending) /\ Cardinality(Pending') \in Nat
      /\ Cardinality(Missed') <= Cardinality(Missed) /\ Cardinality(Missed') \in Nat
      /\ Cardinality(Pending) \in Nat /\ Cardinality(Missed) \in Nat
  BY <1>1, FilesFinite, FS_Subset
<1> QED
  BY <1>2 DEF Uncounted

LEMMA OneMoreUncounted ==
  ASSUME NEW e,
         \/ Pending' \subseteq Pending \cup {e} /\ Missed' \subseteq Missed
         \/ Pending' \subseteq Pending /\ Missed' \subseteq Missed \cup {e}
  PROVE  Uncounted' <= Uncounted + 1
<1>1. Pending \in SUBSET Local!Files /\ Missed \in SUBSET Local!Files
  BY DEF Pending, Missed
<1>2. ASSUME NEW T, NEW U \in SUBSET Local!Files, T \subseteq U \cup {e}
      PROVE  /\ Cardinality(T) \in Nat /\ Cardinality(U) \in Nat
             /\ Cardinality(T) <= Cardinality(U) + 1
             /\ T \subseteq U => Cardinality(T) <= Cardinality(U)
  <2>1. IsFiniteSet(U) /\ Cardinality(U) \in Nat
    BY FilesFinite
  <2>2. /\ IsFiniteSet(U \cup {e}) /\ Cardinality(U \cup {e}) <= Cardinality(U) + 1
        /\ Cardinality(U \cup {e}) \in Nat
    BY <2>1, FS_AddElement
  <2>3. /\ IsFiniteSet(T) /\ Cardinality(T) <= Cardinality(U \cup {e})
        /\ T \subseteq U => Cardinality(T) <= Cardinality(U)
    BY <1>2, <2>1, <2>2, FS_Subset
  <2>4. Cardinality(T) \in Nat
    BY <2>3, FS_CardinalityType
  <2> QED
    BY <2>1, <2>2, <2>3, <2>4
<1>3. /\ Cardinality(Pending') \in Nat /\ Cardinality(Pending) \in Nat
      /\ Cardinality(Pending') <= Cardinality(Pending) + 1
      /\ Pending' \subseteq Pending => Cardinality(Pending') <= Cardinality(Pending)
  BY <1>1, <1>2
<1>4. /\ Cardinality(Missed') \in Nat /\ Cardinality(Missed) \in Nat
      /\ Cardinality(Missed') <= Cardinality(Missed) + 1
      /\ Missed' \subseteq Missed => Cardinality(Missed') <= Cardinality(Missed)
  BY <1>1, <1>2
<1> QED
  BY <1>3, <1>4 DEF Uncounted

LEMMA MissedInstead ==
  ASSUME NEW e \in Pending, Pending' \subseteq Pending \ {e}, Missed' \subseteq Missed \cup {e}
  PROVE  Uncounted' <= Uncounted
<1>1. Pending \in SUBSET Local!Files /\ Missed \in SUBSET Local!Files
  BY DEF Pending, Missed
<1>2. /\ IsFiniteSet(Pending) /\ Cardinality(Pending) \in Nat
      /\ IsFiniteSet(Missed) /\ Cardinality(Missed) \in Nat
  BY <1>1, FilesFinite
<1>3. /\ IsFiniteSet(Pending \ {e}) /\ Cardinality(Pending \ {e}) = Cardinality(Pending) - 1
      /\ IsFiniteSet(Missed \cup {e}) /\ Cardinality(Missed \cup {e}) <= Cardinality(Missed) + 1
  <2>1. IsFiniteSet(Pending \ {e}) /\ Cardinality(Pending \ {e}) = Cardinality(Pending) - 1
    BY <1>2, FS_RemoveElement
  <2>2. /\ IsFiniteSet(Missed \cup {e})
        /\ Cardinality(Missed \cup {e}) =
             IF e \in Missed THEN Cardinality(Missed) ELSE Cardinality(Missed) + 1
    BY <1>2, FS_AddElement
  <2> QED
    BY <1>2, <2>1, <2>2
<1>4. /\ IsFiniteSet(Pending') /\ Cardinality(Pending') <= Cardinality(Pending \ {e})
      /\ IsFiniteSet(Missed') /\ Cardinality(Missed') <= Cardinality(Missed \cup {e})
  BY <1>3, FS_Subset
<1>5. Cardinality(Pending') \in Nat /\ Cardinality(Missed') \in Nat
      /\ Cardinality(Missed \cup {e}) \in Nat
  BY <1>3, <1>4, FS_CardinalityType
<1> QED
  BY <1>2, <1>3, <1>4, <1>5 DEF Uncounted

Unread == [since |-> -1, files |-> [e \in Entries |-> 0]]
ScanOf(mon) ==
  [since |-> IF mon.baseline THEN mon.since ELSE -1, files |-> [e \in Entries |-> -1]]
SameBut(mon, other) ==
  /\ other.watching = mon.watching /\ other.watched = mon.watched
  /\ other.baseline = mon.baseline /\ other.since = mon.since
  /\ other.snapshot = mon.snapshot /\ other.incomplete = mon.incomplete
SameScan(mon, other) ==
  SameBut(mon, other) /\ other.running = mon.running /\ other.scan = mon.scan

LEMMA IdleMonitor ==
  /\ Local!Idle \in Monitor
  /\ ~Local!Idle.watching /\ ~Local!Idle.running /\ ~Local!Idle.debounce
  /\ Local!Idle.baseline /\ Local!Idle.since = 0
  /\ Local!Idle.snapshot = [e \in Entries |-> 0]
  /\ Local!Idle.scan = Unread
<1>1. [e \in Entries |-> 0] \in [Entries -> Int]
  OBVIOUS
<1>2. Unread \in [since : Int, files : [Entries -> Int]]
  BY <1>1 DEF Unread
<1> QED
  BY <1>1, <1>2 DEF Local!Idle, Local!Unknown, Local!NoScan, Local!NoBaseline, Local!Absent,
                    Unread, Monitor

LEMMA Requested ==
  ASSUME NEW mon \in Monitor, NEW other, other = Local!ScanRequested(mon)
  PROVE  /\ other \in Monitor /\ other.debounce = mon.debounce
         /\ mon.running => SameScan(mon, other)
         /\ ~mon.running => SameBut(mon, other) /\ other.running /\ other.scan = ScanOf(mon)
<1>1. CASE mon.running
  <2>1. other = [mon EXCEPT !.again = TRUE]
    BY <1>1 DEF Local!ScanRequested
  <2> QED
    BY <1>1, <2>1 DEF Monitor, SameScan, SameBut
<1>2. CASE ~mon.running
  <2>1. [e \in Entries |-> -1] \in [Entries -> Int]
    OBVIOUS
  <2>2. mon.baseline \in BOOLEAN /\ mon.since \in Int
    BY DEF Monitor
  <2>3. ScanOf(mon) \in [since : Int, files : [Entries -> Int]]
    BY <2>1, <2>2 DEF ScanOf
  <2>4. other = [mon EXCEPT !.running = TRUE, !.again = FALSE, !.scan = ScanOf(mon)]
    BY <1>2 DEF Local!ScanRequested, ScanOf, Local!NoBaseline, Local!Unread
  <2> HIDE DEF ScanOf
  <2> QED
    BY <1>2, <2>3, <2>4 DEF Monitor, SameBut
<1> QED
  BY <1>1, <1>2

(* Nothing that the counts are about changes.                              *)
LEMMA SameMonitor ==
  ASSUME ActivityInv, UNCHANGED <<clock, disk, uncounted>>, LocalTypes', ScansWatched',
         SameScan(m, m')
  PROVE  ActivityInv'
<1>1. /\ m'.watching = m.watching /\ m'.watched = m.watched /\ m'.baseline = m.baseline
      /\ m'.since = m.since /\ m'.snapshot = m.snapshot /\ m'.incomplete = m.incomplete
      /\ m'.running = m.running /\ m'.scan = m.scan
  BY DEF SameScan, SameBut
<1>2. Pending' = Pending /\ Missed' = Missed
  BY <1>1 DEF Pending, Missed, News, Found, WasRead
<1>3. OnDisk' /\ ReadBefore' /\ CreatedMeanwhile'
  BY <1>1 DEF ActivityInv, OnDisk, ReadBefore, CreatedMeanwhile, Younger
<1>4. EnoughUncounted'
  BY <1>1, <1>2 DEF ActivityInv, EnoughUncounted, Uncounted
<1>5. Local!CompleteWatchesAll'
  BY <1>1 DEF ActivityInv, Local!CompleteWatchesAll
<1> QED
  BY <1>3, <1>4, <1>5 DEF ActivityInv

(* A scan begins where none runs: it finds what the disk holds.            *)
LEMMA ScanBegins ==
  ASSUME ActivityInv, UNCHANGED <<clock, disk, uncounted>>, LocalTypes', ScansWatched',
         SameBut(m, m'), ~m.running, m'.running, m'.scan = ScanOf(m)
  PROVE  ActivityInv'
<1>1. /\ m'.watching = m.watching /\ m'.watched = m.watched /\ m'.baseline = m.baseline
      /\ m'.since = m.since /\ m'.snapshot = m.snapshot /\ m'.incomplete = m.incomplete
      /\ \A e \in Entries : m'.scan.files[e] = -1
  BY DEF SameBut, ScanOf
<1>2. Pending' = Pending /\ Missed' = Missed
  BY <1>1 DEF Pending, Missed, News, Found, WasRead, Local!Files
<1>3. OnDisk' /\ ReadBefore'
  BY <1>1 DEF ActivityInv, OnDisk, ReadBefore, LocalTypes
<1>4. CreatedMeanwhile'
  BY <1>1, EntriesAssumption DEF CreatedMeanwhile
<1>5. EnoughUncounted'
  BY <1>1, <1>2 DEF ActivityInv, EnoughUncounted, Uncounted
<1>6. Local!CompleteWatchesAll'
  BY <1>1 DEF ActivityInv, Local!CompleteWatchesAll
<1> QED
  BY <1>3, <1>4, <1>5, <1>6 DEF ActivityInv

(* A watch that ends, and one that begins, has nothing to count.           *)
LEMMA StopKeeps ==
  ASSUME ActivityInv, Local!StopWatching, UNCHANGED <<clock, disk>>,
         LocalTypes', ~(lEnabled /\ installed)'
  PROVE  ActivityInv'
<1>1. m' = Local!Idle /\ uncounted' = 0
  BY DEF Local!StopWatching
<1>2. /\ ~m'.watching /\ ~m'.running /\ ~m'.debounce /\ m'.since = 0
      /\ m'.snapshot = [e \in Entries |-> 0] /\ m'.scan = Unread
  BY <1>1, IdleMonitor
<1>3. OnDisk' /\ ReadBefore' /\ ScansWatched' /\ CreatedMeanwhile'
  BY <1>2 DEF ActivityInv, LocalTypes, OnDisk, ReadBefore, ScansWatched, CreatedMeanwhile,
              Unread
<1>4. EnoughUncounted' /\ Local!CompleteWatchesAll'
  BY <1>1, <1>2 DEF EnoughUncounted, Local!CompleteWatchesAll
<1> QED
  BY <1>3, <1>4 DEF ActivityInv

LEMMA SetupKeeps ==
  ASSUME ActivityInv, Local!SetupWatcher, UNCHANGED <<clock, disk>>,
         lEnabled' \in BOOLEAN, installed' \in BOOLEAN, present' \in BOOLEAN
  PROVE  ActivityInv'
<1> DEFINE mon == [Local!Idle EXCEPT !.watching = TRUE, !.watched = {Root}, !.since = clock]
<1>1. m' = Local!ScanRequested(mon) /\ uncounted' = 0
  BY DEF Local!SetupWatcher
<1>2. clock \in Nat
  BY DEF ActivityInv, LocalTypes
<1>3. /\ mon \in Monitor /\ mon.watching /\ mon.baseline /\ mon.since = clock
      /\ mon.snapshot = [e \in Entries |-> 0] /\ ~mon.running /\ ~mon.debounce
  <2>1. PICK idle \in Monitor :
          /\ idle = Local!Idle /\ idle.baseline /\ ~idle.running /\ ~idle.debounce
          /\ idle.snapshot = [e \in Entries |-> 0]
    BY IdleMonitor
  <2>2. mon = [idle EXCEPT !.watching = TRUE, !.watched = {Root}, !.since = clock]
    BY <2>1
  <2>3. clock \in Int /\ {Root} \in SUBSET (Entries \cup {Root})
    BY <1>2
  <2> HIDE DEF mon
  <2>4. mon \in Monitor
    BY <2>2, <2>3 DEF Monitor
  <2>5. /\ mon.watching /\ mon.since = clock /\ mon.baseline = idle.baseline
        /\ mon.snapshot = idle.snapshot /\ mon.running = idle.running
        /\ mon.debounce = idle.debounce
    BY <2>2 DEF Monitor
  <2> QED
    BY <2>1, <2>4, <2>5
<1> HIDE DEF mon
<1>4. /\ m' \in Monitor /\ m'.watching /\ m'.baseline /\ m'.since = clock
      /\ m'.snapshot = [e \in Entries |-> 0] /\ m'.running /\ ~m'.debounce
      /\ m'.scan = [since |-> clock, files |-> [e \in Entries |-> -1]]
  BY <1>1, <1>3, Requested DEF SameBut, ScanOf
<1>5. LocalTypes'
  BY <1>1, <1>4 DEF ActivityInv, LocalTypes
<1>6. OnDisk' /\ ReadBefore' /\ ScansWatched'
  BY <1>2, <1>4 DEF ActivityInv, OnDisk, ReadBefore, ScansWatched
<1>7. CreatedMeanwhile'
  BY <1>4, EntriesAssumption DEF CreatedMeanwhile
<1>8. Pending' = {}
  <2>1. \A f \in Local!Files : f \in Entries /\ disk[f] \in Nat /\ disk[f] <= clock
    BY DEF ActivityInv, LocalTypes, OnDisk, Local!Files
  <2> QED
    BY <1>2, <1>4, <2>1 DEF Pending, News, Found, WasRead, Local!Files
<1>9. Missed' = {}
  BY <1>4 DEF Missed, WasRead, Local!Files
<1>10. Uncounted' = 0
  BY <1>8, <1>9, FS_EmptySet DEF Uncounted
<1>11. EnoughUncounted' /\ Local!CompleteWatchesAll'
  BY <1>1, <1>4, <1>10 DEF EnoughUncounted, Local!CompleteWatchesAll
<1> QED
  BY <1>5, <1>6, <1>7, <1>11 DEF ActivityInv

(* The read of an entry: a file that is not reached because its folder was *)
(* not there is new, and is missed instead of found.                       *)
LEMMA ReadKeeps ==
  ASSUME ActivityInv, NEW e \in Entries, Local!Read(e)
  PROVE  ActivityInv'
<1> DEFINE value == IF Local!HasFolder(e, m.scan.files) THEN disk[e] ELSE 0
           files == [m.scan.files EXCEPT ![e] = value]
<1>1. /\ m.running /\ m.scan.files[e] = -1
      /\ \A f \in Folders : m.scan.files[f] = -1 => Parent[e] # f
      /\ m' = [m EXCEPT !.scan.files[e] = value]
      /\ UNCHANGED <<disk, clock, present, lEnabled, installed, uncounted>>
  BY DEF Local!Read, Local!Unread, Local!Absent, Local!environment, Local!history
<1>2. /\ m \in Monitor /\ disk \in [Entries -> Nat] /\ clock \in Nat
      /\ m.scan \in [since : Int, files : [Entries -> Int]] /\ m.scan.files \in [Entries -> Int]
      /\ disk[e] \in Nat /\ disk[e] <= clock
  BY DEF ActivityInv, LocalTypes, Monitor, OnDisk
<1>3. value \in Nat /\ value <= clock
  BY <1>2
<1> HIDE DEF value
<1>4. files \in [Entries -> Int] /\ files[e] = value
      /\ \A f \in Entries : f # e => files[f] = m.scan.files[f]
  BY <1>2, <1>3
<1> HIDE DEF files
<1>5. m' = [m EXCEPT !.scan = [m.scan EXCEPT !.files = files]]
  BY <1>1, <1>2 DEF files, Monitor
<1>6. [m.scan EXCEPT !.files = files] \in [since : Int, files : [Entries -> Int]]
      /\ [m.scan EXCEPT !.files = files].files = files
      /\ [m.scan EXCEPT !.files = files].since = m.scan.since
  BY <1>2, <1>4
<1>7. /\ m' \in Monitor /\ SameBut(m, m') /\ m'.running = m.running
      /\ m'.debounce = m.debounce /\ m'.scan.files = files /\ m'.scan.since = m.scan.since
  BY <1>2, <1>5, <1>6 DEF Monitor, SameBut
<1>8. /\ m'.watching = m.watching /\ m'.watched = m.watched /\ m'.baseline = m.baseline
      /\ m'.since = m.since /\ m'.snapshot = m.snapshot /\ m'.incomplete = m.incomplete
  BY <1>7 DEF SameBut
<1>9. LocalTypes' /\ OnDisk' /\ ScansWatched'
  BY <1>1, <1>7, <1>8 DEF ActivityInv, LocalTypes, OnDisk, ScansWatched
<1>10. ReadBefore'
  BY <1>1, <1>2, <1>3, <1>4, <1>7, <1>8 DEF ActivityInv, ReadBefore
(* Of what is in a folder that was not there, all is younger.              *)
<1>11. ASSUME value = 0, disk[e] # 0
       PROVE  Younger(disk[e])
  <2>1. Parent[e] \in Folders /\ m.scan.files[Parent[e]] = 0
    BY <1>11, EntriesAssumption DEF value, Local!HasFolder, Local!Absent
  <2> QED
    BY <1>1, <1>11, <2>1, EntriesAssumption DEF ActivityInv, CreatedMeanwhile
<1>12. CreatedMeanwhile'
  <2> SUFFICES ASSUME NEW c \in Entries, Parent[c] # Root, disk[c] # 0, files[Parent[c]] = 0
               PROVE  Younger(disk[c])
    BY <1>1, <1>7, <1>8 DEF CreatedMeanwhile, Younger
  <2>1. Parent[c] \in Entries
    BY EntriesAssumption
  <2>2. CASE Parent[c] # e
    BY <1>1, <1>4, <2>1, <2>2 DEF ActivityInv, CreatedMeanwhile
  <2>3. CASE Parent[c] = e
    <3>1. disk[e] # 0 /\ disk[e] <= disk[c] /\ disk[c] \in Nat
      BY <1>2, <2>3 DEF ActivityInv, OnDisk
    <3>2. Younger(disk[e])
      BY <1>4, <1>11, <2>3, <3>1
    <3>3. m.since \in Int /\ \A f \in Local!Files : m.snapshot[f] \in Int
      BY <1>2 DEF Monitor, Local!Files
    <3> QED
      BY <1>2, <3>1, <3>2, <3>3 DEF Younger
  <2> QED
    BY <2>2, <2>3
<1>13. Uncounted' <= Uncounted
  <2>1. \A f \in Local!Files : f # e =>
          (f \in Pending' <=> f \in Pending) /\ (f \in Missed' <=> f \in Missed)
    BY <1>1, <1>4, <1>7, <1>8 DEF Pending, Missed, News, Found, WasRead, Local!Files
  <2>2. e \in Pending' => e \in Pending
    BY <1>1, <1>2, <1>4, <1>7, <1>8 DEF value, Pending, News, Found, WasRead
  <2>3. e \in Missed' => value = 0 /\ disk[e] # 0
    BY <1>1, <1>4, <1>7 DEF value, Missed, WasRead
  <2>4. CASE e \notin Missed'
    <3>1. Pending' \subseteq Pending /\ Missed' \subseteq Missed
      BY <2>1, <2>2, <2>4 DEF Pending, Missed
    <3> QED
      BY <3>1, FewerUncounted
  <2>5. CASE e \in Missed'
    <3>1. value = 0 /\ disk[e] # 0 /\ Younger(disk[e]) /\ e \in Local!Files
      BY <1>11, <2>3, <2>5 DEF Missed
    <3>2. m.snapshot[e] \in Int /\ disk[e] \in Int
      BY <1>2 DEF Monitor
    <3>3. e \in Pending
      BY <1>1, <3>1, <3>2 DEF Pending, News, Found, WasRead, Younger
    <3>4. e \notin Pending'
      BY <1>1, <1>4, <1>7, <3>1 DEF Pending, News, Found, WasRead
    <3>5. Pending' \subseteq Pending \ {e} /\ Missed' \subseteq Missed \cup {e}
      BY <2>1, <3>4 DEF Pending, Missed
    <3> QED
      BY <3>3, <3>5, MissedInstead
  <2> QED
    BY <2>4, <2>5
<1>14. Uncounted \in Int /\ Uncounted' \in Int
  BY FilesFinite DEF Uncounted, Pending, Missed
<1>15. EnoughUncounted'
  BY <1>1, <1>8, <1>13, <1>14 DEF ActivityInv, LocalTypes, EnoughUncounted
<1>16. Local!CompleteWatchesAll'
  BY <1>1, <1>8 DEF ActivityInv, Local!CompleteWatchesAll
<1> QED
  BY <1>9, <1>10, <1>12, <1>15, <1>16 DEF ActivityInv

(* A scan that ends: what it did not count yet is what changed after it    *)
(* read it, and without a word it watches all that it found.               *)
LEMMA FinishKeeps ==
  ASSUME ActivityInv, Local!ScanFinished
  PROVE  ActivityInv'
<1> DEFINE desired == {Root} \cup {e \in Entries : m.scan.files[e] # 0}
           gone == {e \in desired \ ({Root} \cup m.watched) : disk[e] = 0}
           found == [e \in Entries |-> IF e \in Local!Files THEN m.scan.files[e] ELSE 0]
           next(refused) ==
             [m EXCEPT !.watched = desired \ (gone \cup refused),
                       !.incomplete = gone \cup refused # {}, !.baseline = FALSE,
                       !.running = FALSE, !.scan = Unread, !.snapshot = found]
<1>1. /\ m.running /\ \A e \in Entries : m.scan.files[e] # -1
      /\ UNCHANGED <<disk, clock, present, lEnabled, installed>>
  BY DEF Local!ScanFinished, Local!Unread, Local!environment
<1>2. /\ m \in Monitor /\ clock \in Nat /\ m.scan.files \in [Entries -> Int]
      /\ m.since \in Int /\ m.snapshot \in [Entries -> Int] /\ uncounted \in Int
      /\ disk \in [Entries -> Nat] /\ m.watching /\ m.baseline \in BOOLEAN
      /\ m.again \in BOOLEAN /\ m.debounce \in BOOLEAN
  BY <1>1 DEF ActivityInv, LocalTypes, Monitor, ScansWatched
<1>3. \A e \in Entries : 0 <= m.scan.files[e] /\ m.scan.files[e] <= clock
  BY <1>1, <1>2 DEF ActivityInv, ReadBefore
<1>4. PICK refused :
        /\ m' = IF m.baseline THEN Local!ScanRequested(next(refused))
                ELSE [next(refused) EXCEPT !.debounce = @ \/ m.again]
        /\ uncounted' = IF Local!Changed(m.scan) THEN uncounted - 1 ELSE uncounted
  BY DEF Local!ScanFinished, Local!Finish, Local!Absent, Local!NoScan, Local!NoBaseline,
         Local!Unknown, Unread
<1>5. found \in [Entries -> Int] /\ Unread \in [since : Int, files : [Entries -> Int]]
  BY <1>2 DEF Unread
<1>6. PICK done \in Monitor :
        /\ done = next(refused)
        /\ done.watching /\ ~done.baseline /\ ~done.running /\ done.scan = Unread
        /\ done.since = m.since /\ done.snapshot = found /\ done.debounce = m.debounce
        /\ done.watched = desired \ (gone \cup refused)
        /\ done.incomplete = (gone \cup refused # {})
  <2>1. desired \ (gone \cup refused) \in SUBSET (Entries \cup {Root})
    OBVIOUS
  <2> HIDE DEF desired, gone, found, Unread
  <2>2. next(refused) \in Monitor
    BY <1>2, <1>5, <2>1 DEF Monitor
  <2> QED
    BY <1>2, <2>2 DEF Monitor
<1>7. \A f \in Local!Files : found[f] = m.scan.files[f]
  BY DEF Local!Files
<1>8. \A e \in Entries : 0 <= found[e] /\ found[e] <= clock
  BY <1>2, <1>3
<1> HIDE DEF found, next
<1>9. /\ m' \in Monitor /\ m'.watching /\ ~m'.baseline /\ m'.since = m.since
      /\ m'.snapshot = found /\ m'.watched = done.watched /\ m'.incomplete = done.incomplete
      /\ \/ ~m'.running /\ m'.scan = Unread
         \/ m'.running /\ m'.scan = [since |-> -1, files |-> [e \in Entries |-> -1]]
  <2>1. CASE m.baseline
    <3>1. m' = Local!ScanRequested(done)
      BY <1>4, <1>6, <2>1
    <3> QED
      BY <1>6, <3>1, Requested DEF SameBut, ScanOf
  <2>2. CASE ~m.baseline
    <3>1. m' = [done EXCEPT !.debounce = done.debounce \/ m.again]
      BY <1>4, <1>6, <2>2
    <3>2. (done.debounce \/ m.again) \in BOOLEAN
      OBVIOUS
    <3> QED
      BY <1>6, <3>1, <3>2 DEF Monitor
  <2> QED
    BY <1>2, <2>1, <2>2
<1>10. uncounted' \in Int
  BY <1>2, <1>4
<1>11. LocalTypes' /\ OnDisk' /\ ScansWatched'
  BY <1>1, <1>9, <1>10 DEF ActivityInv, LocalTypes, OnDisk, ScansWatched
<1>12. ReadBefore'
  BY <1>1, <1>2, <1>8, <1>9 DEF ActivityInv, ReadBefore, Unread
<1>13. CreatedMeanwhile'
  BY <1>9, EntriesAssumption DEF CreatedMeanwhile
<1>14. Pending' \subseteq Missed /\ Missed' = {}
  <2>1. \A e \in Entries : m'.running => m'.scan.files[e] = -1
    BY <1>9
  <2> QED
    BY <1>1, <1>7, <1>9, <2>1 DEF Pending, Missed, News, Found, WasRead, Local!Files
<1>15. Local!Changed(m.scan) => Pending # {}
  <2>1. m.scan.since = IF m.baseline THEN m.since ELSE -1
    BY <1>1 DEF ActivityInv, ScansWatched
  <2>2. ASSUME NEW f \in Local!Files,
               IF m.baseline THEN m.scan.files[f] > m.since
               ELSE m.scan.files[f] \notin {0, m.snapshot[f]}
        PROVE  f \in Pending
    <3>1. f \in Entries /\ 0 <= m.since
      BY DEF Local!Files, ActivityInv, ReadBefore
    <3>2. m.scan.files[f] # 0
      BY <1>2, <1>3, <2>2, <3>1
    <3> QED
      BY <1>1, <2>2, <3>1, <3>2 DEF Pending, News, Found, WasRead
  <2> QED
    BY <1>2, <2>1, <2>2 DEF Local!Changed, Local!Absent, Local!NoBaseline
<1>16. Uncounted' <= uncounted'
  <2>1. Pending \in SUBSET Local!Files /\ Missed \in SUBSET Local!Files
        /\ Pending' \in SUBSET Local!Files
    BY DEF Pending, Missed
  <2>2. /\ IsFiniteSet(Pending) /\ Cardinality(Pending) \in Nat
        /\ IsFiniteSet(Missed) /\ Cardinality(Missed) \in Nat /\ Cardinality(Pending') \in Nat
    BY <2>1, FilesFinite
  <2>3. Cardinality(Pending') <= Cardinality(Missed)
    BY <1>14, <2>2, FS_Subset
  <2>4. Cardinality(Missed') = 0
    BY <1>14, FS_EmptySet
  <2>5. Uncounted' <= Cardinality(Missed)
    BY <2>2, <2>3, <2>4 DEF Uncounted
  <2>6. Pending # {} => Cardinality(Pending) >= 1
    BY <2>2, FS_EmptySet
  <2>7. uncounted >= Cardinality(Pending) + Cardinality(Missed)
    BY <1>2 DEF ActivityInv, EnoughUncounted, Uncounted
  <2>8. Uncounted' \in Int
    BY <2>2, <2>4 DEF Uncounted
  <2> QED
    BY <1>2, <1>4, <1>15, <2>2, <2>5, <2>6, <2>7, <2>8
<1>17. Uncounted' >= 0
  BY <1>14, FilesFinite, FS_EmptySet DEF Uncounted, Pending
<1>18. EnoughUncounted'
  <2>1. Uncounted' \in Int
    BY <1>14, FilesFinite, FS_EmptySet DEF Uncounted, Pending
  <2> QED
    BY <1>10, <1>16, <1>17, <2>1 DEF EnoughUncounted
<1>19. Local!CompleteWatchesAll'
  <2> SUFFICES ASSUME NEW f \in Local!Files, ~m'.incomplete, disk[f] # 0, m'.snapshot[f] = disk[f]
               PROVE  f \in m'.watched
    BY <1>1 DEF Local!CompleteWatchesAll, Local!Absent
  <2>1. gone \cup refused = {}
    BY <1>6, <1>9
  <2>2. f \in Entries /\ m.scan.files[f] # 0
    BY <1>7, <1>9 DEF Local!Files
  <2>3. f \in desired
    BY <2>2
  <2> QED
    BY <1>6, <1>9, <2>1, <2>3
<1> QED
  BY <1>11, <1>12, <1>13, <1>18, <1>19 DEF ActivityInv

(* A change of a file is one more to count; it is younger than all that    *)
(* was read.                                                               *)
LEMMA ChangeKeeps ==
  ASSUME ActivityInv, NEW e \in Entries, NEW to \in {0, clock + 1}, NEW seenBy,
         NEW watched \in {m.watched, m.watched \ {e}},
         Local!Changes(e, to, seenBy, watched),
         to = 0 => \A c \in Entries : Parent[c] = e => disk[c] = 0,
         to # 0 => Parent[e] = Root \/ disk[Parent[e]] # 0,
         e \in Folders /\ to # 0 => disk[e] = 0
  PROVE  ActivityInv'
<1>1. /\ clock' = clock + 1 /\ disk' = [disk EXCEPT ![e] = to]
      /\ m' = [m EXCEPT !.watched = watched]
      /\ uncounted' = IF e \in Local!Files /\ to # 0 /\ m.watching THEN uncounted + 1
                      ELSE uncounted
      /\ UNCHANGED <<present, lEnabled, installed>>
  BY DEF Local!Changes, Local!Absent
<1>2. /\ clock \in Nat /\ disk \in [Entries -> Nat] /\ uncounted \in Int /\ m \in Monitor
      /\ watched \in SUBSET (Entries \cup {Root}) /\ m.since \in Int
      /\ m.snapshot \in [Entries -> Int] /\ m.scan.files \in [Entries -> Int]
  BY DEF ActivityInv, LocalTypes, Monitor
<1>3. /\ m' \in Monitor /\ m'.watched = watched
      /\ m'.watching = m.watching /\ m'.baseline = m.baseline /\ m'.since = m.since
      /\ m'.snapshot = m.snapshot /\ m'.running = m.running /\ m'.scan = m.scan
      /\ m'.debounce = m.debounce /\ m'.incomplete = m.incomplete
  BY <1>1, <1>2 DEF Monitor
<1>4. /\ disk'[e] = to /\ \A c \in Entries : c # e => disk'[c] = disk[c]
      /\ \A c \in Entries : disk[c] \in Nat /\ disk[c] <= clock /\ disk'[c] \in Nat
      /\ to \in Nat
  BY <1>1, <1>2 DEF ActivityInv, OnDisk
<1>5. LocalTypes' /\ ScansWatched' /\ ReadBefore'
  <2>1. LocalTypes'
    BY <1>1, <1>2, <1>3, <1>4 DEF ActivityInv, LocalTypes
  <2>2. ScansWatched'
    BY <1>1, <1>3 DEF ActivityInv, ScansWatched
  <2>3. ReadBefore'
    BY <1>1, <1>2, <1>3 DEF ActivityInv, ReadBefore
  <2> QED
    BY <2>1, <2>2, <2>3
<1>6. OnDisk'
  <2> SUFFICES ASSUME NEW c \in Entries
               PROVE  /\ disk'[c] <= clock'
                      /\ disk'[c] # 0 /\ Parent[c] # Root =>
                           disk'[Parent[c]] # 0 /\ disk'[Parent[c]] <= disk'[c]
    BY DEF OnDisk
  <2>1. disk'[c] <= clock'
    BY <1>1, <1>2, <1>4
  <2>2. ASSUME disk'[c] # 0, Parent[c] # Root
        PROVE  disk'[Parent[c]] # 0 /\ disk'[Parent[c]] <= disk'[c]
    <3>1. Parent[c] \in Folders /\ Parent[c] \in Entries
      BY <2>2, EntriesAssumption
    <3>2. CASE c = e
      BY <1>2, <1>4, <2>2, <3>1, <3>2
    <3>3. CASE c # e /\ Parent[c] = e
      <4>1. disk[c] # 0 /\ disk[e] # 0
        BY <1>4, <2>2, <3>1, <3>3 DEF ActivityInv, OnDisk
      <4> QED
        BY <1>4, <3>1, <3>3, <4>1
    <3>4. CASE c # e /\ Parent[c] # e
      BY <1>4, <2>2, <3>1, <3>4 DEF ActivityInv, OnDisk
    <3> QED
      BY <3>2, <3>3, <3>4
  <2> QED
    BY <2>1, <2>2
<1>7. CreatedMeanwhile'
  <2> SUFFICES ASSUME m.running, NEW c \in Entries, Parent[c] # Root, disk'[c] # 0,
                      m.scan.files[Parent[c]] = 0
               PROVE  Younger(disk'[c])
    BY <1>3 DEF CreatedMeanwhile, Younger
  <2>1. CASE c # e
    BY <1>4, <2>1 DEF ActivityInv, CreatedMeanwhile
  <2>2. CASE c = e
    <3>1. disk'[c] = clock + 1
      BY <1>4, <2>2
    <3> QED
      BY <1>2, <3>1 DEF ActivityInv, ReadBefore, Younger, Local!Files
  <2> QED
    BY <2>1, <2>2
<1>8. \A f \in Local!Files : f # e =>
        (f \in Pending' <=> f \in Pending) /\ (f \in Missed' <=> f \in Missed)
  BY <1>3, <1>4 DEF Pending, Missed, News, Found, WasRead, Local!Files
<1>9. Uncounted \in Int /\ Uncounted' \in Int
  BY FilesFinite DEF Uncounted, Pending, Missed
<1>10. EnoughUncounted'
  <2>1. CASE e \in Local!Files /\ to # 0
    <3>1. \/ Pending' \subseteq Pending \cup {e} /\ Missed' \subseteq Missed
          \/ Pending' \subseteq Pending /\ Missed' \subseteq Missed \cup {e}
      <4>1. CASE WasRead(e)
        <5>1. e \in Pending' => e \in Pending
          BY <1>3, <4>1 DEF Pending, News, Found, WasRead
        <5> QED
          BY <1>8, <5>1 DEF Pending, Missed
      <4>2. CASE ~WasRead(e)
        <5>1. e \notin Missed'
          BY <1>3, <4>2 DEF Missed, WasRead
        <5> QED
          BY <1>8, <5>1 DEF Pending, Missed
      <4> QED
        BY <4>1, <4>2
    <3>2. Uncounted' <= Uncounted + 1
      BY <3>1, OneMoreUncounted
    <3> QED
      BY <1>1, <1>2, <1>3, <1>9, <2>1, <3>2 DEF ActivityInv, EnoughUncounted
  <2>2. CASE e \notin Local!Files \/ to = 0
    <3>1. e \in Pending' => e \in Pending
      BY <1>3, <1>4, <2>2 DEF Pending, News, Found, WasRead
    <3>2. e \notin Missed'
      BY <1>4, <2>2 DEF Missed
    <3>3. Pending' \subseteq Pending /\ Missed' \subseteq Missed
      BY <1>8, <3>1, <3>2 DEF Pending, Missed
    <3>4. Uncounted' <= Uncounted
      BY <3>3, FewerUncounted
    <3> QED
      BY <1>1, <1>2, <1>3, <1>9, <2>2, <3>4 DEF ActivityInv, EnoughUncounted
  <2> QED
    BY <2>1, <2>2
<1>11. Local!CompleteWatchesAll'
  <2> SUFFICES ASSUME m.watching, ~m.baseline, ~m.incomplete, NEW f \in Local!Files,
                      disk'[f] # 0, m.snapshot[f] = disk'[f]
               PROVE  f \in watched
    BY <1>3 DEF Local!CompleteWatchesAll, Local!Absent
  <2>1. f \in Entries /\ m.snapshot[f] <= clock /\ m.snapshot[f] \in Int
    BY <1>2 DEF Local!Files, ActivityInv, ReadBefore
  <2>2. f # e
    BY <1>2, <1>4, <2>1
  <2> QED
    BY <1>4, <2>1, <2>2 DEF ActivityInv, Local!CompleteWatchesAll, Local!Absent
<1> QED
  BY <1>5, <1>6, <1>7, <1>10, <1>11 DEF ActivityInv

LEMMA DiskChangesKeep ==
  ASSUME ActivityInv, NEW e \in Entries,
         \/ Local!Create(e) \/ Local!Write(e) \/ Local!Replace(e) \/ Local!Delete(e)
  PROVE  ActivityInv'
<1>1. clock + 1 # 0
  BY DEF ActivityInv, LocalTypes
<1>2. ASSUME disk[e] # 0 PROVE Parent[e] = Root \/ disk[Parent[e]] # 0
  BY <1>2 DEF ActivityInv, OnDisk
<1>3. CASE Local!Create(e)
  BY <1>1, <1>3, ChangeKeeps DEF Local!Create, Local!HasFolder, Local!Absent
<1>4. CASE Local!Write(e)
  BY <1>1, <1>2, <1>4, ChangeKeeps DEF Local!Write, Local!Files, Local!Absent
<1>5. CASE Local!Replace(e)
  BY <1>1, <1>2, <1>5, ChangeKeeps DEF Local!Replace, Local!Files, Local!Absent
<1>6. CASE Local!Delete(e)
  BY <1>6, ChangeKeeps DEF Local!Delete, Local!Inside, Local!Absent
<1> QED
  BY <1>3, <1>4, <1>5, <1>6

LEMMA DebounceKeeps ==
  ASSUME ActivityInv, Local!DebounceFires
  PROVE  ActivityInv'
<1> DEFINE mon == [m EXCEPT !.debounce = FALSE]
<1>1. /\ m' = Local!ScanRequested(mon) /\ m.debounce
      /\ UNCHANGED <<disk, clock, present, lEnabled, installed, uncounted>>
  BY DEF Local!DebounceFires, Local!environment, Local!history
<1>2. m \in Monitor /\ m.watching
  BY <1>1 DEF ActivityInv, LocalTypes, ScansWatched
<1>3. mon \in Monitor /\ ~mon.debounce /\ SameScan(m, mon)
  BY <1>2 DEF Monitor, SameScan, SameBut
<1> HIDE DEF mon
<1>4. m' \in Monitor /\ ~m'.debounce
  BY <1>1, <1>3, Requested
<1>5. LocalTypes'
  BY <1>1, <1>4 DEF ActivityInv, LocalTypes
<1>6. CASE m.running
  <2>1. SameScan(m, m')
    BY <1>1, <1>3, <1>6, Requested DEF SameScan, SameBut
  <2>2. ScansWatched'
    BY <1>1, <1>4, <2>1 DEF ActivityInv, ScansWatched, SameScan, SameBut
  <2> QED
    BY <1>1, <1>5, <2>1, <2>2, SameMonitor
<1>7. CASE ~m.running
  <2>1. SameBut(m, m') /\ m'.running /\ m'.scan = ScanOf(m)
    BY <1>1, <1>3, <1>7, Requested DEF SameScan, SameBut, ScanOf
  <2>2. ScansWatched'
    BY <1>1, <1>2, <1>4, <2>1 DEF ActivityInv, ScansWatched, SameBut, ScanOf
  <2> QED
    BY <1>1, <1>5, <1>7, <2>1, <2>2, ScanBegins
<1> QED
  BY <1>6, <1>7

LEMMA FollowKeeps ==
  ASSUME ActivityInv, Local!FollowInstallation, UNCHANGED <<disk, clock, present>>,
         lEnabled' \in BOOLEAN
  PROVE  ActivityInv'
<1>1. installed' = present /\ present \in BOOLEAN /\ m \in Monitor /\ uncounted \in Int
  BY DEF Local!FollowInstallation, ActivityInv, LocalTypes
<1>2. CASE Local!SetupWatcher
  BY <1>1, <1>2, SetupKeeps
<1>3. CASE Local!StopWatching /\ ~(lEnabled' /\ present)
  <2>1. m' \in Monitor /\ uncounted' = 0
    BY <1>3, IdleMonitor DEF Local!StopWatching
  <2>2. LocalTypes'
    BY <1>1, <2>1 DEF ActivityInv, LocalTypes
  <2> QED
    BY <1>1, <1>3, <2>2, StopKeeps
<1>4. CASE /\ UNCHANGED <<m, superseded, Local!history>>
           /\ ~(lEnabled' /\ present /\ ~m.watching)
  <2>1. m' = m /\ uncounted' = uncounted
    BY <1>4 DEF Local!history
  <2>2. LocalTypes'
    BY <1>1, <2>1 DEF ActivityInv, LocalTypes
  <2>3. ScansWatched'
    BY <1>1, <1>4, <2>1 DEF ActivityInv, ScansWatched
  <2> QED
    BY <2>1, <2>2, <2>3, SameMonitor DEF SameScan, SameBut
<1> QED
  BY <1>2, <1>3, <1>4 DEF Local!FollowInstallation

LEMMA SwitchKeeps ==
  ASSUME ActivityInv, NEW on \in BOOLEAN, Local!SetEnabled(on)
  PROVE  ActivityInv'
<1>1. lEnabled' = on /\ UNCHANGED <<disk, clock, present>>
  BY DEF Local!SetEnabled, Local!environment
<1>2. CASE on
  BY <1>1, <1>2, FollowKeeps DEF Local!SetEnabled
<1>3. CASE ~on
  <2>1. Local!StopWatching /\ UNCHANGED installed
    BY <1>3 DEF Local!SetEnabled
  <2>2. m' \in Monitor /\ uncounted' = 0
    BY <2>1, IdleMonitor DEF Local!StopWatching
  <2>3. LocalTypes'
    BY <1>1, <2>1, <2>2 DEF ActivityInv, LocalTypes
  <2> QED
    BY <1>1, <1>3, <2>1, <2>3, StopKeeps
<1> QED
  BY <1>2, <1>3

(* What a watch told, a scan that was superseded and an installation       *)
(* change nothing that is counted.                                         *)
LEMMA QuietKeeps ==
  ASSUME ActivityInv,
         \/ Local!EventArrives \/ Local!Installation
         \/ \E since : Local!SupersededFinished(since)
         \/ UNCHANGED Local!vars
  PROVE  ActivityInv'
<1>1. CASE Local!EventArrives
  <2>1. /\ m' = [m EXCEPT !.debounce = @ \/ (lEnabled /\ installed)]
        /\ UNCHANGED <<disk, clock, present, lEnabled, installed, uncounted>>
    BY <1>1 DEF Local!EventArrives, Local!environment, Local!history
  <2>2. m \in Monitor /\ m.debounce \in BOOLEAN
    BY DEF ActivityInv, LocalTypes, Monitor
  <2>3. (m.debounce \/ (lEnabled /\ installed)) \in BOOLEAN
    OBVIOUS
  <2>4. /\ m' \in Monitor /\ SameScan(m, m')
        /\ m'.debounce = (m.debounce \/ (lEnabled /\ installed))
    BY <2>1, <2>2, <2>3 DEF Monitor, SameScan, SameBut
  <2>5. LocalTypes'
    BY <2>1, <2>4 DEF ActivityInv, LocalTypes
  <2>6. m'.debounce => m.debounce \/ (lEnabled /\ installed)
    BY <2>4
  <2>7. ScansWatched'
    BY <2>1, <2>4, <2>6 DEF ActivityInv, ScansWatched, SameScan, SameBut
  <2> QED
    BY <2>1, <2>4, <2>5, <2>7, SameMonitor
<1>2. CASE \/ \E since : Local!SupersededFinished(since)
           \/ UNCHANGED Local!vars
  <2>1. UNCHANGED <<disk, clock, present, lEnabled, installed, uncounted, m>>
    BY <1>2 DEF Local!SupersededFinished, Local!vars, Local!environment, Local!history
  <2>2. LocalTypes' /\ ScansWatched'
    BY <2>1 DEF ActivityInv, LocalTypes, ScansWatched
  <2> QED
    BY <2>1, <2>2, SameMonitor DEF SameScan, SameBut
<1>3. CASE Local!Installation
  <2>1. /\ clock' = clock + 1 /\ present' \in BOOLEAN
        /\ UNCHANGED <<disk, lEnabled, installed, uncounted, m>>
    BY <1>3 DEF Local!Installation, Local!history
  <2>2. clock \in Nat /\ disk \in [Entries -> Nat] /\ m.since \in Int
        /\ m.snapshot \in [Entries -> Int] /\ m.scan.files \in [Entries -> Int]
    BY DEF ActivityInv, LocalTypes, Monitor
  <2>3. LocalTypes' /\ ScansWatched'
    BY <2>1, <2>2 DEF ActivityInv, LocalTypes, ScansWatched
  <2>4. OnDisk' /\ ReadBefore'
    BY <2>1, <2>2 DEF ActivityInv, OnDisk, ReadBefore
  <2>5. CreatedMeanwhile'
    BY <2>1 DEF ActivityInv, CreatedMeanwhile, Younger
  <2>6. EnoughUncounted'
    BY <2>1 DEF ActivityInv, EnoughUncounted, Uncounted, Pending, Missed, News, Found, WasRead
  <2>7. Local!CompleteWatchesAll'
    BY <2>1 DEF ActivityInv, Local!CompleteWatchesAll
  <2> QED
    BY <2>3, <2>4, <2>5, <2>6, <2>7 DEF ActivityInv
<1> QED
  BY <1>1, <1>2, <1>3

LEMMA ActivityStarts == Local!Init => ActivityInv
<1> SUFFICES ASSUME Local!Init PROVE ActivityInv
  OBVIOUS
<1>1. /\ disk \in [Entries -> {0, 1}] /\ clock = 1 /\ present \in BOOLEAN
      /\ lEnabled = FALSE /\ installed = FALSE /\ m = Local!Idle /\ uncounted = 0
      /\ \A e \in Entries : Parent[e] = Root \/ disk[Parent[e]] # 0 \/ disk[e] = 0
  BY DEF Local!Init, Local!HasFolder, Local!Absent
<1>2. /\ m \in Monitor /\ ~m.watching /\ ~m.running /\ ~m.debounce /\ m.since = 0
      /\ m.snapshot = [e \in Entries |-> 0] /\ m.scan = Unread
  BY <1>1, IdleMonitor
<1>3. LocalTypes
  <2>1. disk \in [Entries -> Nat]
    BY <1>1
  <2>2. clock \in Nat /\ uncounted \in Int
    BY <1>1
  <2>3. lEnabled \in BOOLEAN /\ installed \in BOOLEAN
    BY <1>1
  <2> QED
    BY <1>1, <1>2, <2>1, <2>2, <2>3 DEF LocalTypes
<1>4. OnDisk
  <2>1. \A e \in Entries : Parent[e] # Root => Parent[e] \in Entries
    BY EntriesAssumption
  <2>2. \A e \in Entries : disk[e] \in {0, 1}
    BY <1>1
  <2> QED
    BY <1>1, <2>1, <2>2 DEF OnDisk
<1>5. ReadBefore /\ ScansWatched /\ CreatedMeanwhile
  BY <1>1, <1>2 DEF ReadBefore, ScansWatched, CreatedMeanwhile, Unread
<1>6. EnoughUncounted /\ Local!CompleteWatchesAll
  BY <1>1, <1>2 DEF EnoughUncounted, Local!CompleteWatchesAll
<1> QED
  BY <1>3, <1>4, <1>5, <1>6 DEF ActivityInv

LEMMA ActivityKeeps == ActivityInv /\ [Local!Next]_(Local!vars) => ActivityInv'
<1> SUFFICES ASSUME ActivityInv, [Local!Next]_(Local!vars) PROVE ActivityInv'
  OBVIOUS
<1>1. CASE Local!CheckToolInstalled
  <2>1. /\ Local!FollowInstallation /\ UNCHANGED <<disk, clock, present>>
        /\ lEnabled' = lEnabled /\ lEnabled \in BOOLEAN
    BY <1>1 DEF Local!CheckToolInstalled, Local!environment, ActivityInv, LocalTypes
  <2> QED
    BY <2>1, FollowKeeps
<1>2. ASSUME NEW on \in BOOLEAN, Local!SetEnabled(on) PROVE ActivityInv'
  BY <1>2, SwitchKeeps
<1>3. CASE Local!DebounceFires
  BY <1>3, DebounceKeeps
<1>4. ASSUME NEW e \in Entries, Local!Read(e) PROVE ActivityInv'
  BY <1>4, ReadKeeps
<1>5. CASE Local!ScanFinished
  BY <1>5, FinishKeeps
<1>6. ASSUME NEW e \in Entries,
             \/ Local!Create(e) \/ Local!Write(e) \/ Local!Replace(e) \/ Local!Delete(e)
      PROVE  ActivityInv'
  BY <1>6, DiskChangesKeep
<1>7. CASE \/ Local!EventArrives \/ Local!Installation
           \/ \E since : Local!SupersededFinished(since)
           \/ UNCHANGED Local!vars
  BY <1>7, QuietKeeps
<1> QED
  BY <1>1, <1>2, <1>3, <1>4, <1>5, <1>6, <1>7 DEF Local!Next, Local!Reads

(* LocalActivityMonitorBase compares the files it reads on a worker with   *)
(* those of the last scan, while they change, watches are lost or refused  *)
(* and the monitor is switched.  For any files and folders and any number  *)
(* of changes: no activity is counted that is not a change of its own      *)
(* since the watch began, and a watch that is not called incomplete has    *)
(* every file the last scan found and nobody changed since.                *)
THEOREM ActivityStaysCounted == Local!Spec => []ActivityIsCounted
<1>1. ActivityInv => ActivityIsCounted
  BY DEF ActivityInv, EnoughUncounted, ActivityIsCounted, Local!ActivityIsCounted,
         Local!CountedIsActivity
<1> QED
  BY <1>1, ActivityStarts, ActivityKeeps, PTL DEF Local!Spec

-----------------------------------------------------------------------------
(* The series *)

SampleType ==
  [at : 0 .. To + 1, value : SampleValues, quality : Qualities, semantic : Chart!Semantics]

LEMMA SamplesTyped == Chart!Spec => [](samples \in Seq(SampleType))
<1>1. Chart!Init => samples \in Seq(SampleType)
  BY DEF Chart!Init
<1>2. samples \in Seq(SampleType) /\ [Chart!Next]_samples => (samples \in Seq(SampleType))'
  <2> SUFFICES ASSUME samples \in Seq(SampleType), Chart!Record
               PROVE  samples' \in Seq(SampleType)
    BY DEF Chart!Next
  <2>1. PICK e \in SampleType : samples' = Append(samples, e)
    BY DEF Chart!Record, SampleType
  <2> QED BY <2>1
<1> QED
  BY <1>1, <1>2, PTL DEF Chart!Spec

LEMMA Division ==
  ASSUME NEW a \in Nat, NEW b \in Nat \ {0}
  PROVE  a \div b \in Nat /\ b * (a \div b) <= a /\ a < b * (a \div b) + b
OBVIOUS

LEMMA Products ==
  ASSUME NEW a \in Nat, NEW b \in Nat, NEW c \in Nat
  PROVE  /\ a <= b => c * a <= c * b
         /\ a < b => c * a + c <= c * b
OBVIOUS

(* The buckets are long enough for the range to have no more of them than  *)
(* a series has points.                                                    *)
LEMMA LongEnough ==
  /\ Chart!EffectiveBucketSeconds \in Nat \ {0}
  /\ To <= MaxPoints * Chart!EffectiveBucketSeconds
<1> DEFINE c == (To + MaxPoints - 1) \div MaxPoints
           E == Chart!EffectiveBucketSeconds
<1>1. c \in Nat /\ To <= MaxPoints * c
  <2>1. To + MaxPoints - 1 \in Nat /\ MaxPoints \in Nat \ {0}
    BY SeriesAssumption
  <2>2. c \in Nat /\ To + MaxPoints - 1 < MaxPoints * c + MaxPoints
    BY <2>1, Division
  <2>3. MaxPoints * c \in Int
    BY <2>1, <2>2
  <2> HIDE DEF c
  <2> QED BY <2>1, <2>2, <2>3, SeriesAssumption
<1>2. E = Chart!Max({Base, c})
  BY DEF Chart!EffectiveBucketSeconds, Chart!Ceiling
<1> HIDE DEF c, E
<1>3. \E x \in {Base, c} : \A y \in {Base, c} : x >= y
  BY <1>1, SeriesAssumption
<1>4. E \in {Base, c} /\ E >= Base /\ E >= c
  BY <1>2, <1>3 DEF Chart!Max
<1>5. E \in Nat \ {0}
  BY <1>1, <1>4, SeriesAssumption
<1>6. MaxPoints * c <= MaxPoints * E
  BY <1>1, <1>4, <1>5, SeriesAssumption, Products
<1>7. MaxPoints * c \in Int /\ MaxPoints * E \in Int
  BY <1>1, <1>5, SeriesAssumption
<1>8. To <= MaxPoints * E
  BY <1>1, <1>6, <1>7, SeriesAssumption
<1> QED BY <1>5, <1>8 DEF E

LEMMA Bucketed ==
  ASSUME NEW t \in 0 .. To
  PROVE  /\ Chart!Bucket(t) \in 0 .. MaxPoints
         /\ Chart!Bucket(t) * Chart!EffectiveBucketSeconds <= t
<1> DEFINE E == Chart!EffectiveBucketSeconds
           b == Chart!Bucket(t)
<1>1. E \in Nat \ {0} /\ To <= MaxPoints * E /\ t \in Nat /\ MaxPoints \in Nat
  BY LongEnough, SeriesAssumption
<1>2. b = t \div E
  BY DEF Chart!Bucket
<1> HIDE DEF E, b
<1>3. b \in Nat /\ E * b <= t
  BY <1>1, <1>2, Division
<1>4. E * b = b * E /\ E * MaxPoints = MaxPoints * E /\ E * b \in Int /\ E * MaxPoints \in Int
  BY <1>1, <1>3
<1>5. ~ (MaxPoints < b)
  <2>1. MaxPoints < b => E * MaxPoints + E <= E * b
    BY <1>1, <1>3, Products
  <2> QED BY <1>1, <1>3, <1>4, <2>1, SeriesAssumption
<1>6. b \in 0 .. MaxPoints /\ b * E <= t
  BY <1>1, <1>3, <1>4, <1>5
<1> QED BY <1>6 DEF E, b

LEMMA FilteredSamples ==
  ASSUME samples \in Seq(SampleType)
  PROVE  /\ IsFiniteSet(Chart!Filtered)
         /\ \A i \in Chart!Filtered :
              /\ i \in Nat /\ samples[i].at \in 0 .. To /\ samples[i].value \in Int
              /\ samples[i].semantic \in Chart!Semantics
              /\ Chart!Bucket(samples[i].at) \in 0 .. MaxPoints
<1>1. Chart!Filtered \subseteq 1 .. Len(samples) /\ Len(samples) \in Nat
  BY DEF Chart!Filtered
<1>2. IsFiniteSet(Chart!Filtered)
  <2>1. IsFiniteSet(1 .. Len(samples))
    BY <1>1, FS_Interval
  <2> QED BY <1>1, <2>1, FS_Subset
<1>3. ASSUME NEW i \in Chart!Filtered
      PROVE  /\ i \in Nat /\ samples[i].at \in 0 .. To /\ samples[i].value \in Int
             /\ samples[i].semantic \in Chart!Semantics
  <2>1. samples[i] \in SampleType /\ i \in Nat
    BY <1>1
  <2> QED BY <2>1, SeriesAssumption DEF SampleType, Chart!Filtered
<1> QED BY <1>2, <1>3, Bucketed

(* What the rows of the query are.                                         *)
LEMMA Keys ==
  \A i : /\ Chart!Key(i)[1] = Chart!Bucket(samples[i].at)
         /\ Chart!Key(i)[2] = samples[i].semantic
         /\ Chart!Key(i)[3] = samples[i].quality
BY DEF Chart!Key

LEMMA RowFields ==
  \A k : /\ Chart!Row(k).bucket = k[1] /\ Chart!Row(k).semantic = k[2]
         /\ Chart!Row(k).quality = k[3]
         /\ Chart!Row(k).value = Chart!RowValue(k[2], Chart!Partition(k))
BY DEF Chart!Row

LEMMA RowsInBucket ==
  ASSUME NEW s, NEW b
  PROVE  \A r : r \in Chart!RowsIn(s, b) <=>
           \E i \in Chart!Filtered : /\ r = Chart!Row(Chart!Key(i))
                                      /\ samples[i].semantic = s
                                      /\ Chart!Bucket(samples[i].at) = b
BY Keys, RowFields DEF Chart!RowsIn, Chart!Segment, Chart!QueryRows

LEMMA SameRow ==
  ASSUME NEW i, NEW j
  PROVE  Chart!Row(Chart!Key(i)) = Chart!Row(Chart!Key(j)) <=> Chart!Key(i) = Chart!Key(j)
<1>1. ASSUME Chart!Row(Chart!Key(i)) = Chart!Row(Chart!Key(j))
      PROVE  Chart!Key(i) = Chart!Key(j)
  <2>1. /\ Chart!Key(i)[1] = Chart!Key(j)[1] /\ Chart!Key(i)[2] = Chart!Key(j)[2]
        /\ Chart!Key(i)[3] = Chart!Key(j)[3]
    BY <1>1, RowFields
  <2> QED BY <2>1, Keys DEF Chart!Key
<1> QED BY <1>1

LEMMA BucketsDrawn ==
  ASSUME NEW s
  PROVE  \A b : b \in Chart!Buckets(s) <=>
           \E i \in Chart!Filtered : samples[i].semantic = s /\ Chart!Bucket(samples[i].at) = b
<1>1. \A b : b \in Chart!Buckets(s) <=> \E r \in Chart!RowsIn(s, b) : TRUE
  BY DEF Chart!Buckets, Chart!RowsIn
<1> QED BY <1>1, RowsInBucket

LEMMA SeriesSum == \A f : Chart!SumFunction(f) = SumFunctionOnSet(f, DOMAIN f)
BY DEF Chart!SumFunction, Chart!SumFunctionOnSet, Chart!FoldFunctionOnSet,
       Chart!MapThenFoldSet, SumFunctionOnSet, FoldFunctionOnSet, MapThenFoldSet

(* The point of a bucket of intervals is the sum of its observations: each *)
(* is in the row of its quality.                                           *)
LEMMA PointOfIntervals ==
  ASSUME samples \in Seq(SampleType), NEW b, NEW f, NEW S,
         S = {i \in Chart!Filtered : /\ samples[i].semantic = "interval_total"
                                      /\ Chart!Bucket(samples[i].at) = b},
         \A i \in S : f[i] = samples[i].value
  PROVE  Chart!IntervalValue(b) = SumFunctionOnSet(f, S)
<1> DEFINE K == Chart!RowsIn("interval_total", b)
           key == [i \in S |-> Chart!Row(Chart!Key(i))]
           part == [r \in K |-> r.value]
<1>1. IsFiniteSet(S) /\ \A i \in S : f[i] \in Int
  <2>1. S \subseteq Chart!Filtered
    OBVIOUS
  <2> QED BY <2>1, FilteredSamples, FS_Subset
<1>2. \A i \in S : key[i] \in K
  BY RowsInBucket
<1>3. \A r \in K : \E i \in S : r = key[i]
  BY RowsInBucket
<1>4. IsFiniteSet(K)
  <2> HIDE DEF K
  <2>1. key \in [S -> K]
    BY <1>2
  <2> HIDE DEF key
  <2>2. key \in Surjection(S, K)
    BY <1>3, <2>1 DEF Surjection
  <2> QED BY <1>1, <2>2, FS_Surjection
<1>5. ASSUME NEW r \in K
      PROVE  part[r] = SumFunctionOnSet(f, Class(S, key, r))
  <2>1. PICK j \in S : r = Chart!Row(Chart!Key(j))
    BY <1>3
  <2> DEFINE P == Chart!Partition(Chart!Key(j))
             g == [i \in P |-> samples[i].value]
  <2>2. r.value = Chart!RowValue(Chart!Key(j)[2], P) /\ Chart!Key(j)[2] = "interval_total"
    BY <2>1, RowFields, Keys
  <2>3. r.value = SumFunctionOnSet(g, P)
    BY <2>2, SeriesSum DEF Chart!RowValue
  <2>4. P = Class(S, key, r)
    <3>1. ASSUME NEW i \in P PROVE i \in S /\ Chart!Row(Chart!Key(i)) = r
      <4>1. i \in Chart!Filtered /\ Chart!Key(i) = Chart!Key(j)
        BY DEF Chart!Partition
      <4>2. samples[i].semantic = samples[j].semantic
        BY <4>1, Keys
      <4>3. Chart!Bucket(samples[i].at) = Chart!Bucket(samples[j].at)
        BY <4>1, Keys
      <4> QED BY <2>1, <4>1, <4>2, <4>3
    <3>2. ASSUME NEW i \in S, key[i] = r PROVE i \in P
      <4>1. Chart!Key(i) = Chart!Key(j) /\ i \in Chart!Filtered
        BY <2>1, <3>2, SameRow
      <4> QED BY <4>1 DEF Chart!Partition
    <3> QED BY <3>1, <3>2 DEF Class
  <2>5. IsFiniteSet(P) /\ \A i \in P : i \in S
    BY <1>1, <2>4, FS_Subset DEF Class
  <2>6. \A i \in P : f[i] \in Int /\ g[i] = f[i]
    BY <1>1, <2>5
  <2> HIDE DEF P, g
  <2>7. SumFunctionOnSet(g, P) = SumFunctionOnSet(f, P)
    BY <2>5, <2>6, SumSame
  <2>8. part[r] = r.value
    OBVIOUS
  <2> QED BY <2>3, <2>4, <2>7, <2>8
<1> HIDE DEF K, key
<1>6. SumFunctionOnSet(part, K) = SumFunctionOnSet(f, S)
  <2> HIDE DEF part
  <2> QED BY SMTT(30), <1>1, <1>2, <1>4, <1>5, SumByClass
<1>7. Chart!IntervalValue(b) = SumFunctionOnSet(part, K)
  BY SeriesSum DEF K, Chart!IntervalValue
<1> QED BY <1>6, <1>7

LEMMA IntervalsAreKept ==
  ASSUME samples \in Seq(SampleType)
  PROVE  Chart!IntervalsKept
<1> DEFINE S == {i \in Chart!Filtered : samples[i].semantic = "interval_total"}
           f == [i \in S |-> samples[i].value]
           K == Chart!Buckets("interval_total")
           key == [i \in S |-> Chart!Bucket(samples[i].at)]
           part == [b \in K |-> Chart!IntervalValue(b)]
<1>1. IsFiniteSet(S) /\ \A i \in S : f[i] \in Int
  <2>1. S \subseteq Chart!Filtered
    OBVIOUS
  <2> QED BY <2>1, FilteredSamples, FS_Subset
<1>2. \A i \in S : key[i] \in K
  BY BucketsDrawn
<1>3. IsFiniteSet(K)
  <2>1. K \subseteq 0 .. MaxPoints
    BY BucketsDrawn, FilteredSamples
  <2>2. IsFiniteSet(0 .. MaxPoints)
    BY SeriesAssumption, FS_Interval
  <2> HIDE DEF K
  <2> QED BY <2>1, <2>2, FS_Subset
<1>4. ASSUME NEW b \in K
      PROVE  part[b] = SumFunctionOnSet(f, Class(S, key, b))
  <2> DEFINE P == Class(S, key, b)
  <2>1. /\ P = {i \in Chart!Filtered : /\ samples[i].semantic = "interval_total"
                                       /\ Chart!Bucket(samples[i].at) = b}
        /\ \A i \in P : f[i] = samples[i].value
    BY DEF Class
  <2>2. part[b] = Chart!IntervalValue(b)
    OBVIOUS
  <2> HIDE DEF P, f, part
  <2>3. Chart!IntervalValue(b) = SumFunctionOnSet(f, P)
    BY <2>1, PointOfIntervals
  <2> QED BY <2>2, <2>3 DEF P
<1>5. DOMAIN part = K /\ DOMAIN f = S
  OBVIOUS
<1>6. Chart!IntervalsKept <=> Chart!SumFunction(part) = Chart!SumFunction(f)
  BY DEF Chart!IntervalsKept
<1> HIDE DEF S, f, K, key, part
<1>7. SumFunctionOnSet(part, K) = SumFunctionOnSet(f, S)
  BY <1>1, <1>2, <1>3, <1>4, SumByClass
<1> QED BY <1>5, <1>6, <1>7, SeriesSum

(* A set of observations has a latest one.                                 *)
LEMMA LatestExists ==
  ASSUME samples \in Seq(SampleType), NEW T \in SUBSET Chart!Filtered, T # {}
  PROVE  /\ Chart!Latest(T) \in T
         /\ \A j \in T : samples[j].at <= samples[Chart!Latest(T)].at
<1>1. /\ \A i \in T : samples[i].at \in 0 .. To /\ i \in 1 .. Len(samples)
      /\ Len(samples) \in Nat /\ To \in Nat
  BY FilteredSamples, SeriesAssumption DEF Chart!Filtered
<1> DEFINE Ages == {To - samples[i].at : i \in T}
<1>2. PICK i \in T : \A j \in T : samples[j].at <= samples[i].at
  <2>1. Ages \subseteq Nat /\ Ages # {}
    BY <1>1
  <2>2. PICK a \in Ages : \A c \in Ages : a <= c
    <3> HIDE DEF Ages
    <3> QED BY <2>1, Least
  <2>3. PICK i \in T : a = To - samples[i].at
    OBVIOUS
  <2>4. ASSUME NEW j \in T PROVE samples[j].at <= samples[i].at
    <3>1. To - samples[i].at <= To - samples[j].at
      BY <2>2, <2>3
    <3>2. samples[i].at \in Int /\ samples[j].at \in Int /\ To \in Int
      BY <1>1
    <3> QED BY <3>1, <3>2
  <2> QED BY <2>4
<1> DEFINE Ties == {j \in T : samples[j].at = samples[i].at}
           Depths == {Len(samples) - j : j \in Ties}
<1>3. PICK k \in Ties : \A j \in Ties : j <= k
  <2>1. Depths \subseteq Nat /\ Depths # {}
    BY <1>1
  <2>2. PICK d \in Depths : \A c \in Depths : d <= c
    <3> HIDE DEF Depths
    <3> QED BY <2>1, Least
  <2>3. PICK k \in Ties : d = Len(samples) - k
    OBVIOUS
  <2>4. \A j \in Ties : Len(samples) - k <= Len(samples) - j
    BY <2>2, <2>3
  <2>5. \A j \in Ties : j \in Nat
    BY <1>1
  <2> HIDE DEF Ties
  <2> QED BY <1>1, <2>4, <2>5
<1>4. k \in T /\ \A j \in T \ {k} : \/ samples[j].at < samples[k].at
                                    \/ samples[j].at = samples[k].at /\ j < k
  BY <1>1, <1>2, <1>3
<1> DEFINE l == Chart!Latest(T)
<1>5. l \in T /\ \A j \in T \ {l} : \/ samples[j].at < samples[l].at
                                    \/ samples[j].at = samples[l].at /\ j < l
  BY <1>4 DEF Chart!Latest
<1> HIDE DEF l
<1>6. \A j \in T : samples[j].at <= samples[l].at
  BY <1>1, <1>5
<1> QED BY <1>5, <1>6 DEF l

LEMMA GaugesShowTheLatest ==
  ASSUME samples \in Seq(SampleType)
  PROVE  Chart!LatestShown
<1> SUFFICES ASSUME NEW b \in Chart!Buckets("gauge"),
                    Chart!Cardinality({samples[i].quality : i \in Chart!InBucket("gauge", b)}) = 1,
                    NEW v \in Chart!PointValues("gauge", b)
             PROVE  \E i \in Chart!InBucket("gauge", b) :
                      /\ samples[i].value = v
                      /\ \A j \in Chart!InBucket("gauge", b) : samples[j].at <= samples[i].at
  BY DEF Chart!LatestShown
<1> DEFINE T == Chart!InBucket("gauge", b)
<1>1. T = {i \in Chart!Filtered : /\ samples[i].semantic = "gauge"
                                  /\ Chart!Bucket(samples[i].at) = b}
  BY DEF Chart!InBucket
<1>2. IsFiniteSet(T) /\ T \subseteq Chart!Filtered
  BY <1>1, FilteredSamples, FS_Subset
<1> DEFINE Q == {samples[i].quality : i \in T}
<1>3. PICK q : Q = {q}
  <2>1. IsFiniteSet(Q)
    <3> DEFINE h == [i \in T |-> samples[i].quality]
    <3>1. h \in [T -> Q] /\ \A x \in Q : \E i \in T : h[i] = x
      OBVIOUS
    <3> HIDE DEF h, Q
    <3>2. h \in Surjection(T, Q)
      BY <3>1 DEF Surjection
    <3> QED BY <1>2, <3>2, FS_Surjection
  <2>2. Cardinality(Q) = 1
    BY DEF Chart!Cardinality, Cardinality
  <2> HIDE DEF Q, T
  <2> QED BY <2>1, <2>2, FS_Singleton
<1> HIDE DEF T
<1>4. PICK r \in Chart!RowsIn("gauge", b) : v = r.value
  BY DEF Chart!PointValues
<1>5. PICK n \in T : r = Chart!Row(Chart!Key(n))
  BY <1>1, <1>4, RowsInBucket
<1>6. \A i \in T : samples[i].quality = samples[n].quality
  BY <1>3, <1>5
<1>7. Chart!Partition(Chart!Key(n)) = T
  <2>1. ASSUME NEW i \in Chart!Partition(Chart!Key(n)) PROVE i \in T
    <3>1. i \in Chart!Filtered /\ Chart!Key(i) = Chart!Key(n)
      BY DEF Chart!Partition
    <3>2. samples[i].semantic = samples[n].semantic
      BY <3>1, Keys
    <3>3. Chart!Bucket(samples[i].at) = Chart!Bucket(samples[n].at)
      BY <3>1, Keys
    <3> QED BY <1>1, <3>1, <3>2, <3>3
  <2>2. ASSUME NEW i \in T PROVE i \in Chart!Partition(Chart!Key(n))
    <3>1. Chart!Key(i) = Chart!Key(n)
      BY <1>1, <1>6 DEF Chart!Key
    <3> QED BY <1>1, <3>1 DEF Chart!Partition
  <2> QED BY <2>1, <2>2
<1>8. v = samples[Chart!Latest(T)].value
  <2>1. r.value = Chart!RowValue(Chart!Key(n)[2], T)
    BY <1>5, <1>7, RowFields
  <2>2. Chart!Key(n)[2] = "gauge"
    BY <1>1, Keys
  <2> QED BY <1>4, <2>1, <2>2 DEF Chart!RowValue
<1>9. /\ Chart!Latest(T) \in T
      /\ \A j \in T : samples[j].at <= samples[Chart!Latest(T)].at
  BY <1>1, LatestExists
<1> QED BY <1>8, <1>9 DEF T

LEMMA GapsMissing ==
  ASSUME samples \in Seq(SampleType)
  PROVE  Chart!GapsAreMissing
<1> SUFFICES ASSUME NEW s PROVE
      /\ Chart!Gaps(s) \intersect Chart!Buckets(s) = {}
      /\ \A a, b \in Chart!Buckets(s) :
           a < b /\ (\A c \in Chart!Buckets(s) : ~(a < c /\ c < b)) =>
             (b > a + 1 <=> \E g \in Chart!Gaps(s) : a < g /\ g < b)
  BY DEF Chart!GapsAreMissing
<1> DEFINE D == Chart!Buckets(s)
<1>1. D \subseteq Nat
  BY BucketsDrawn, FilteredSamples
<1>2. \A g : g \in Chart!Gaps(s) <=>
             \E p \in D : /\ g = p + 1 /\ p + 1 \notin D /\ \E b \in D : b > p
  BY DEF Chart!Gaps
<1> HIDE DEF D
<1>3. Chart!Gaps(s) \intersect D = {}
  BY <1>2
<1>4. ASSUME NEW a \in D, NEW b \in D, a < b, \A c \in D : ~(a < c /\ c < b)
      PROVE  b > a + 1 <=> \E g \in Chart!Gaps(s) : a < g /\ g < b
  <2>1. ASSUME b > a + 1 PROVE \E g \in Chart!Gaps(s) : a < g /\ g < b
    <3>1. a + 1 \notin D
      BY <1>1, <1>4, <2>1
    <3>2. a + 1 \in Chart!Gaps(s)
      BY <1>1, <1>2, <1>4, <3>1
    <3> QED BY <1>1, <2>1, <3>2
  <2>2. ASSUME NEW g \in Chart!Gaps(s), a < g, g < b PROVE b > a + 1
    <3>1. g \in Nat
      BY <1>1, <1>2
    <3> QED BY <1>1, <2>2, <3>1
  <2> QED BY <2>1, <2>2
<1> QED BY <1>3, <1>4 DEF D

LEMMA FewBuckets ==
  ASSUME samples \in Seq(SampleType)
  PROVE  Chart!BucketsBounded
BY FilteredSamples, BucketsDrawn, Bucketed DEF Chart!BucketsBounded

(* However many observations are stored, in whatever order, and whatever   *)
(* the range and the length of a bucket: a series counts every interval    *)
(* once, shows the latest gauge of each bucket and a gap exactly where     *)
(* nothing was observed, in no more buckets than the cap and one           *)
(* (usagedatabase.cpp, getHistorySeries and buildHistorySeriesPayload).    *)
THEOREM SeriesStaysFaithful == Chart!Spec => []SeriesIsFaithful
<1>1. samples \in Seq(SampleType) => SeriesIsFaithful
  BY IntervalsAreKept, GaugesShowTheLatest, GapsMissing, FewBuckets
     DEF SeriesIsFaithful, Chart!SeriesIsFaithful
<1> QED
  BY <1>1, SamplesTyped, PTL

-----------------------------------------------------------------------------
(* The daily state *)

Replaced(c, r) ==
  \/ /\ r.kind = "cost" /\ r.source # "estimated_pricing"
     /\ c.kind = "cost" /\ c.source = "estimated_pricing"
  \/ Daily!Identity(c) = Daily!Identity(r) /\ r.currency \in {"", c.currency}

(* What is appended is added to the members of a sequence.                 *)
LEMMA Appended ==
  ASSUME NEW M, NEW s \in Seq(M), NEW x \in M
  PROVE  Append(s, x) \in Seq(M) /\ Range(Append(s, x)) = Range(s) \cup {x}
<1> DEFINE t == Append(s, x)
<1>1. t \in Seq(M) /\ Len(t) = Len(s) + 1 /\ t[Len(s) + 1] = x
      /\ \A i \in 1 .. Len(s) : t[i] = s[i]
  OBVIOUS
<1>2. DOMAIN s = 1 .. Len(s) /\ DOMAIN t = 1 .. Len(t) /\ Len(s) \in Nat
  OBVIOUS
<1> HIDE DEF t
<1>3. \A i \in DOMAIN t : i \in DOMAIN s \/ i = Len(s) + 1
  BY <1>1, <1>2
<1>4. Len(s) + 1 \in DOMAIN t /\ \A i \in DOMAIN s : i \in DOMAIN t
  BY <1>1, <1>2
<1>5. Range(t) \subseteq Range(s) \cup {x}
  BY <1>1, <1>2, <1>3 DEF Range
<1>6. Range(s) \cup {x} \subseteq Range(t)
  BY <1>1, <1>2, <1>4 DEF Range
<1> QED BY <1>1, <1>5, <1>6 DEF t

(* An empty sequence has no members.                                       *)
LEMMA NoneIn == Range(<<>>) = {}
<1>1. DOMAIN <<>> = {}
  OBVIOUS
<1> QED BY <1>1 DEF Range

(* A metric that is set is there, and of the others those it does not      *)
(* replace.                                                                *)
LEMMA MetricSet ==
  ASSUME NEW M, NEW ms \in Seq(M), NEW r \in M
  PROVE  /\ Daily!SetMetric(ms, r) \in Seq(M)
         /\ \A c \in Range(Daily!SetMetric(ms, r)) :
              c = r \/ (c \in Range(ms) /\ ~Replaced(c, r))
<1> DEFINE n == Len(ms)
           Next_(i, k) == IF Replaced(ms[i], r) THEN k ELSE Append(k, ms[i])
           Is(f) == f = [i \in 0 .. n |-> IF i = 0 THEN <<>> ELSE Next_(i, f[i - 1])]
           V == Seq(M)
           kept == CHOOSE f : Is(f)
<1>0. n \in Nat /\ <<>> \in V /\ \A i \in 1 .. n : ms[i] \in M
  OBVIOUS
<1>1. Daily!SetMetric(ms, r) = Append(kept[n], r)
  BY DEF Daily!SetMetric, Replaced
<1>2. \E f : Is(f)
  <2> DEFINE step == [p \in (1 .. n) \X V |-> Next_(p[1], p[2])]
  <2>1. ASSUME NEW i \in 1 .. n, NEW k \in V PROVE Next_(i, k) \in V
    BY <1>0
  <2>2. step \in [(1 .. n) \X V -> V]
    <3>1. \A p \in (1 .. n) \X V : p[1] \in 1 .. n /\ p[2] \in V
      OBVIOUS
    <3> HIDE DEF n, V, Next_
    <3> QED BY <2>1, <3>1
  <2>3. \A i \in 1 .. n, k \in V : step[<<i, k>>] = Next_(i, k)
    <3> HIDE DEF n, V, Next_
    <3> QED OBVIOUS
  <2>4. PICK f \in [0 .. n -> V] : Leads(f, <<>>, step, n)
    <3> HIDE DEF step, V, n
    <3> QED BY <1>0, <2>2, Stepwise
  <2>5. \A i \in 0 .. n : f[i] = IF i = 0 THEN <<>> ELSE Next_(i, f[i - 1])
    <3> SUFFICES ASSUME NEW i \in 0 .. n, i # 0 PROVE f[i] = Next_(i, f[i - 1])
      BY <2>4 DEF Leads
    <3>1. i \in 1 .. n /\ i - 1 \in 0 .. n
      BY <1>0
    <3> HIDE DEF step, V, n, Next_
    <3> QED BY <2>3, <2>4, <3>1 DEF Leads
  <2>6. f = [i \in 0 .. n |-> f[i]]
    BY <2>4
  <2> HIDE DEF step, V, n, Next_
  <2>7. Is(f)
    BY <2>5, <2>6
  <2> QED BY <2>7
<1>3. Is(kept)
  <2> HIDE DEF Is
  <2> QED BY <1>2
<1> HIDE DEF kept
<1>4. kept[0] = <<>> /\ \A i \in 1 .. n : kept[i] = Next_(i, kept[i - 1])
  <2> HIDE DEF Next_
  <2> QED BY <1>0, <1>3
<1> DEFINE Left == {c \in Range(ms) : ~Replaced(c, r)}
           G == {i \in 0 .. n : kept[i] \in Seq(M) /\ Range(kept[i]) \subseteq Left}
<1>5. 0 \in G
  <2>1. 0 \in 0 .. n /\ <<>> \in Seq(M)
    BY <1>0
  <2>2. Range(kept[0]) \subseteq Left
    BY <1>4, NoneIn
  <2> HIDE DEF Left
  <2> QED BY <1>4, <2>1, <2>2
<1>6. ASSUME NEW i \in 0 .. n - 1, i \in G PROVE i + 1 \in G
  <2>1. i + 1 \in 1 .. n /\ i + 1 - 1 = i
    BY <1>0
  <2>2. kept[i + 1] = Next_(i + 1, kept[i])
    BY <1>4, <2>1
  <2>3. ms[i + 1] \in M /\ ms[i + 1] \in Range(ms)
    BY <2>1 DEF Range
  <2>4. \A k \in Seq(M), x \in M :
          Append(k, x) \in Seq(M) /\ Range(Append(k, x)) = Range(k) \cup {x}
    BY Appended
  <2>5. kept[i] \in Seq(M) /\ Range(kept[i]) \subseteq Left
    BY <1>6
  <2>6. kept[i + 1] \in Seq(M) /\ Range(kept[i + 1]) \subseteq Left
    <3>1. CASE Replaced(ms[i + 1], r)
      BY <2>2, <2>5, <3>1
    <3>2. CASE ~Replaced(ms[i + 1], r)
      <4>1. kept[i + 1] = Append(kept[i], ms[i + 1])
        BY <2>2, <3>2
      <4>2. ms[i + 1] \in Left
        BY <2>3, <3>2
      <4> HIDE DEF Left
      <4> QED BY <2>3, <2>4, <2>5, <4>1, <4>2
    <3> QED BY <3>1, <3>2
  <2> QED BY <2>1, <2>6
<1>7. \A i \in 0 .. n : i \in G
  <2> HIDE DEF G, n
  <2> QED BY <1>0, <1>5, <1>6, Upward
<1>8. kept[n] \in Seq(M) /\ Range(kept[n]) \subseteq Left
  BY <1>0, <1>7
<1>9. Append(kept[n], r) \in Seq(M) /\ Range(Append(kept[n], r)) = Range(kept[n]) \cup {r}
  <2> HIDE DEF n, Left
  <2> QED BY <1>8, Appended
<1> QED BY <1>1, <1>8, <1>9

(* A report sets its metrics one after the other: what stays of the others *)
(* was not replaced by the first.                                          *)
LEMMA ReportSet ==
  ASSUME NEW M, NEW ms \in Seq(M), NEW news \in Seq(M), news # <<>>
  PROVE  /\ Daily!SetMetrics(ms, news) \in Seq(M)
         /\ \A c \in Range(Daily!SetMetrics(ms, news)) :
              c \in Range(news) \/ (c \in Range(ms) /\ ~Replaced(c, news[1]))
<1> DEFINE n == Len(news)
           Is(f) == f = [i \in 0 .. n |-> IF i = 0 THEN ms ELSE Daily!SetMetric(f[i - 1], news[i])]
           V == Seq(M)
           set == CHOOSE f : Is(f)
<1>0. n \in Nat /\ n > 0 /\ ms \in V /\ \A i \in 1 .. n : news[i] \in M
  OBVIOUS
<1>1. Daily!SetMetrics(ms, news) = set[n]
  BY DEF Daily!SetMetrics
<1>2. \E f : Is(f)
  <2> DEFINE step == [p \in (1 .. n) \X V |-> Daily!SetMetric(p[2], news[p[1]])]
  <2>1. ASSUME NEW i \in 1 .. n, NEW k \in V PROVE Daily!SetMetric(k, news[i]) \in V
    BY <1>0, MetricSet
  <2>2. step \in [(1 .. n) \X V -> V]
    <3>1. \A p \in (1 .. n) \X V : p[1] \in 1 .. n /\ p[2] \in V
      OBVIOUS
    <3> HIDE DEF n, V
    <3> QED BY <2>1, <3>1
  <2>3. \A i \in 1 .. n, k \in V : step[<<i, k>>] = Daily!SetMetric(k, news[i])
    <3> HIDE DEF n, V
    <3> QED OBVIOUS
  <2>4. PICK f \in [0 .. n -> V] : Leads(f, ms, step, n)
    <3> HIDE DEF step, V, n
    <3> QED BY <1>0, <2>2, Stepwise
  <2>5. \A i \in 0 .. n : f[i] = IF i = 0 THEN ms ELSE Daily!SetMetric(f[i - 1], news[i])
    <3> SUFFICES ASSUME NEW i \in 0 .. n, i # 0 PROVE f[i] = Daily!SetMetric(f[i - 1], news[i])
      BY <2>4 DEF Leads
    <3>1. i \in 1 .. n /\ i - 1 \in 0 .. n
      BY <1>0
    <3> HIDE DEF step, V, n
    <3> QED BY <2>3, <2>4, <3>1 DEF Leads
  <2>6. f = [i \in 0 .. n |-> f[i]]
    BY <2>4
  <2> HIDE DEF step, V, n
  <2>7. Is(f)
    BY <2>5, <2>6
  <2> QED BY <2>7
<1>3. Is(set)
  <2> HIDE DEF Is
  <2> QED BY <1>2
<1> HIDE DEF set
<1>4. set[0] = ms /\ \A i \in 1 .. n : set[i] = Daily!SetMetric(set[i - 1], news[i])
  BY <1>0, <1>3
<1> DEFINE Left == Range(news) \cup {c \in Range(ms) : ~Replaced(c, news[1])}
           G == {i \in 0 .. n : set[i] \in Seq(M) /\ (i > 0 => Range(set[i]) \subseteq Left)}
<1>5. 0 \in G
  BY <1>0, <1>4
<1>6. ASSUME NEW i \in 0 .. n - 1, i \in G PROVE i + 1 \in G
  <2>1. i + 1 \in 1 .. n /\ i + 1 - 1 = i
    BY <1>0
  <2>2. set[i + 1] = Daily!SetMetric(set[i], news[i + 1])
    BY <1>4, <2>1
  <2>3. news[i + 1] \in M /\ news[i + 1] \in Range(news)
    BY <2>1 DEF Range
  <2>4. set[i] \in Seq(M) /\ (i > 0 => Range(set[i]) \subseteq Left)
    BY <1>6
  <2>5. /\ set[i + 1] \in Seq(M)
        /\ \A c \in Range(set[i + 1]) :
             c = news[i + 1] \/ (c \in Range(set[i]) /\ ~Replaced(c, news[i + 1]))
    BY <2>2, <2>3, <2>4, MetricSet
  <2>6. Range(set[i + 1]) \subseteq Left
    <3>1. CASE i = 0
      BY <1>4, <2>3, <2>5, <3>1
    <3>2. CASE i > 0
      <4> HIDE DEF Left
      <4>1. \A c \in Range(set[i]) : c \in Left
        BY <2>4, <3>2
      <4>2. news[i + 1] \in Left
        BY <2>3 DEF Left
      <4> QED BY <2>5, <4>1, <4>2
    <3> QED BY <3>1, <3>2
  <2> QED BY <2>1, <2>5, <2>6
<1>7. \A i \in 0 .. n : i \in G
  <2> HIDE DEF G, n
  <2> QED BY <1>0, <1>5, <1>6, Upward
<1>8. set[n] \in Seq(M) /\ Range(set[n]) \subseteq Left
  BY <1>0, <1>7
<1> QED BY <1>1, <1>8

-----------------------------------------------------------------------------
(* Sorting *)

Orders(R, E) ==
  /\ \A x, y \in E : x # y => <<x, y>> \in R \/ <<y, x>> \in R
  /\ \A x, y, z \in E : <<x, y>> \in R /\ <<y, z>> \in R => <<x, z>> \in R

Highest(R, T, x) == x \in T /\ \A y \in T \ {x} : <<y, x>> \in R

Sorted(R, T, s) ==
  /\ s \in [1 .. Cardinality(T) -> T]
  /\ \A i, j \in 1 .. Cardinality(T) : i < j => <<s[i], s[j]>> \in R

(* A finite set that a transitive relation orders has a highest member.    *)
LEMMA HighestExists ==
  ASSUME NEW E, IsFiniteSet(E), NEW R, Orders(R, E), E # {}
  PROVE  \E x : Highest(R, E, x)
<1> DEFINE Bad == {T \in SUBSET E : T # {} /\ ~ \E x : Highest(R, T, x)}
<1> SUFFICES ASSUME Bad # {} PROVE FALSE
  OBVIOUS
<1>1. PICK T \in Bad : \A z \in T : T \ {z} \notin Bad
  <2>1. Bad \subseteq SUBSET E
    OBVIOUS
  <2> HIDE DEF Bad
  <2> QED BY <2>1, Smallest
<1>2. PICK z \in T : TRUE
  OBVIOUS
<1>3. CASE T \ {z} = {}
  BY <1>2, <1>3 DEF Highest
<1>4. CASE T \ {z} # {}
  <2>1. PICK x : Highest(R, T \ {z}, x)
    BY <1>1, <1>2, <1>4
  <2>2. x \in E /\ z \in E /\ x # z /\ x \in T
    BY <2>1 DEF Highest
  <2>3. CASE <<x, z>> \in R
    <3>1. Highest(R, T, z)
      BY <1>2, <2>1, <2>2, <2>3 DEF Highest, Orders
    <3> QED BY <3>1
  <2>4. CASE <<z, x>> \in R
    <3>1. Highest(R, T, x)
      BY <1>2, <2>1, <2>2, <2>4 DEF Highest, Orders
    <3> QED BY <3>1
  <2> QED BY <2>2, <2>3, <2>4 DEF Orders
<1> QED BY <1>3, <1>4

(* The members of a finite set can be listed in an order of them.          *)
LEMMA Sorting ==
  ASSUME NEW E, IsFiniteSet(E), NEW R, Orders(R, E)
  PROVE  \E s : Sorted(R, E, s)
<1> DEFINE Bad == {T \in SUBSET E : ~ \E s : Sorted(R, T, s)}
<1> SUFFICES ASSUME Bad # {} PROVE FALSE
  OBVIOUS
<1>1. PICK T \in Bad : \A z \in T : T \ {z} \notin Bad
  <2>1. Bad \subseteq SUBSET E
    OBVIOUS
  <2> HIDE DEF Bad
  <2> QED BY <2>1, Smallest
<1>2. IsFiniteSet(T) /\ Cardinality(T) \in Nat
  BY FS_Subset, FS_CardinalityType
<1>3. T # {}
  <2> SUFFICES ASSUME T = {} PROVE FALSE
    OBVIOUS
  <2>1. Cardinality(T) = 0
    BY FS_EmptySet
  <2>2. Sorted(R, T, [i \in 1 .. 0 |-> i])
    BY <2>1 DEF Sorted
  <2> QED BY <2>2
<1>4. PICK x : Highest(R, T, x)
  <2>1. Orders(R, T)
    BY DEF Orders
  <2> QED BY <1>2, <1>3, <2>1, HighestExists
<1>5. x \in T /\ \A y \in T \ {x} : <<y, x>> \in R
  BY <1>4 DEF Highest
<1>6. Cardinality(T \ {x}) = Cardinality(T) - 1
  BY <1>2, <1>5, FS_RemoveElement
<1>7. PICK s : Sorted(R, T \ {x}, s)
  BY <1>1, <1>5
<1> DEFINE n == Cardinality(T)
           t == [i \in 1 .. n |-> IF i < n THEN s[i] ELSE x]
<1>8. /\ \A i \in 1 .. n - 1 : s[i] \in T \ {x}
      /\ \A i, j \in 1 .. n - 1 : i < j => <<s[i], s[j]>> \in R
  BY <1>6, <1>7 DEF Sorted
<1>9. Sorted(R, T, t)
  <2>1. t \in [1 .. n -> T]
    BY <1>2, <1>5, <1>8
  <2>2. ASSUME NEW i \in 1 .. n, NEW j \in 1 .. n, i < j PROVE <<t[i], t[j]>> \in R
    <3>1. i \in 1 .. n - 1 /\ t[i] = s[i]
      BY <1>2, <2>2
    <3>2. CASE j < n
      <4>1. j \in 1 .. n - 1 /\ t[j] = s[j]
        BY <1>2, <3>2
      <4> HIDE DEF t, n
      <4> QED BY <1>8, <2>2, <3>1, <4>1
    <3>3. CASE ~ (j < n)
      <4>1. t[j] = x
        BY <3>3
      <4> HIDE DEF t, n
      <4> QED BY <1>5, <1>8, <3>1, <4>1
    <3> QED BY <3>2, <3>3
  <2> HIDE DEF t
  <2> QED BY <2>1, <2>2 DEF Sorted
<1> QED BY <1>9

(* The cardinality an instance counts is the library's.                    *)
LEMMA SameCardinality == \A S : Daily!Cardinality(S) = Cardinality(S)
BY DEF Daily!Cardinality, Cardinality

(* No two sources have the same place in the settings.                     *)
LEMMA OrderOfSources ==
  /\ \A id \in Daily!Sources : Daily!Order(id) \in Int
  /\ \A i, j \in Daily!Sources : i # j => Daily!Order(i) # Daily!Order(j)
<1> DEFINE Upto(id) == {p \in Providers : p <= id}
           N == Cardinality(Providers)
<1>1. N \in Nat
  BY SourcesAssumption, FS_CardinalityType
<1>2. \A id \in Providers :
        /\ IsFiniteSet(Upto(id)) /\ Cardinality(Upto(id)) \in Nat /\ Cardinality(Upto(id)) <= N
  <2> SUFFICES ASSUME NEW id \in Providers
               PROVE  /\ IsFiniteSet(Upto(id)) /\ Cardinality(Upto(id)) \in Nat
                      /\ Cardinality(Upto(id)) <= N
    OBVIOUS
  <2>1. Upto(id) \subseteq Providers /\ IsFiniteSet(Providers)
    BY SourcesAssumption
  <2> HIDE DEF Upto
  <2> QED BY <2>1, FS_Subset, FS_CardinalityType
<1>3. \A i, j \in Providers : i < j => Cardinality(Upto(i)) # Cardinality(Upto(j))
  <2> SUFFICES ASSUME NEW i \in Providers, NEW j \in Providers, i < j,
                      Cardinality(Upto(i)) = Cardinality(Upto(j))
               PROVE  FALSE
    OBVIOUS
  <2>1. i \in Int /\ j \in Int /\ Providers \subseteq Int
    BY SourcesAssumption
  <2>2. Upto(i) \subseteq Upto(j) /\ j \in Upto(j) /\ j \notin Upto(i)
    <3>1. \A p \in Providers : p \in Int /\ (p <= i => p <= j)
      BY <2>1
    <3>2. j <= j /\ ~ (j <= i)
      BY <2>1
    <3> QED BY <3>1, <3>2
  <2>3. IsFiniteSet(Upto(j))
    BY <1>2
  <2> HIDE DEF Upto
  <2>4. Upto(i) = Upto(j)
    BY <2>2, <2>3, FS_Subset
  <2> QED BY <2>2, <2>4
<1>4. \A id \in Daily!Sources :
        Daily!Order(id) = IF id = Tool THEN N + 1 ELSE Cardinality(Upto(id))
  BY SameCardinality DEF Daily!Order
<1>5. \A id \in Daily!Sources : id = Tool \/ id \in Providers
  BY DEF Daily!Sources
<1> HIDE DEF N, Upto
<1>6. \A id \in Daily!Sources : Daily!Order(id) \in Int
  BY <1>1, <1>2, <1>4, <1>5
<1>7. ASSUME NEW i \in Providers, NEW j \in Providers, i # j
      PROVE  Cardinality(Upto(i)) # Cardinality(Upto(j))
  <2>1. i \in Int /\ j \in Int
    BY SourcesAssumption
  <2>2. i < j \/ j < i
    BY <1>7, <2>1
  <2> QED BY <1>3, <2>2
<1>8. \A id \in Providers : Cardinality(Upto(id)) # N + 1
  BY <1>1, <1>2
<1> QED BY <1>4, <1>5, <1>6, <1>7, <1>8, SourcesAssumption

(* What a row must have to be sorted.                                      *)
Sortable(r) ==
  /\ r.priority \in Int /\ r.remaining \in Int /\ r.reset \in Int
  /\ r.quality \in {"actual", "estimated", "balance", "connectivity_only", "unavailable"}
  /\ r.id \in Daily!Sources

SmallerKey(u, v) ==
  \/ u[1] < v[1]
  \/ /\ u[1] = v[1]
     /\ \/ u[2] < v[2]
        \/ /\ u[2] = v[2]
           /\ \/ u[3] < v[3]
              \/ /\ u[3] = v[3]
                 /\ \/ u[4] < v[4]
                    \/ /\ u[4] = v[4] /\ u[5] < v[5]

(* A row is sorted by five numbers, first the place of its reason, last    *)
(* the place of its source.                                                *)
LEMMA KeyOfRow ==
  ASSUME NEW r, Sortable(r)
  PROVE  /\ Daily!SortKey(r) \in [1 .. 5 -> Int]
         /\ DOMAIN Daily!SortKey(r) = 1 .. 5
         /\ Daily!SortKey(r)[1] = r.priority
         /\ Daily!SortKey(r)[5] = Daily!Order(r.id)
<1> DEFINE a == r.priority
           b == Daily!QualityRank[r.quality]
           c == r.remaining
           d == IF r.reset = Daily!Never THEN MaxTime + 3 ELSE r.reset
           e == Daily!Order(r.id)
<1>1. a \in Int /\ c \in Int /\ e \in Int
  BY OrderOfSources DEF Sortable
<1>2. b \in Int
  BY DEF Sortable, Daily!QualityRank
<1>3. d \in Int
  BY SourcesAssumption DEF Sortable
<1>4. Daily!SortKey(r) = <<a, b, c, d, e>>
  BY DEF Daily!SortKey
<1> HIDE DEF a, b, c, d, e
<1>5. <<a, b, c, d, e>> \in [1 .. 5 -> Int]
  BY <1>1, <1>2, <1>3
<1>6. DOMAIN <<a, b, c, d, e>> = 1 .. 5
  OBVIOUS
<1>7. <<a, b, c, d, e>>[1] = a /\ <<a, b, c, d, e>>[5] = e
  OBVIOUS
<1> QED BY <1>4, <1>5, <1>6, <1>7 DEF a, e

(* One row is before another when its key is the smaller one.              *)
LEMMA BeforeIs ==
  ASSUME NEW r, NEW s, Sortable(r), Sortable(s)
  PROVE  Daily!Before(r, s) <=> SmallerKey(Daily!SortKey(r), Daily!SortKey(s))
<1> DEFINE u == Daily!SortKey(r)
           v == Daily!SortKey(s)
<1>1. DOMAIN u = 1 .. 5
  BY KeyOfRow
<1>2. Daily!Before(r, s) <=> \E i \in DOMAIN u : u[i] < v[i] /\ \A j \in 1 .. i - 1 : u[j] = v[j]
  BY DEF Daily!Before
<1> HIDE DEF u, v
<1>3. \A i \in 1 .. 5 : i = 1 \/ i = 2 \/ i = 3 \/ i = 4 \/ i = 5
  OBVIOUS
<1>4. /\ 1 .. 1 - 1 = {} /\ 1 .. 2 - 1 = {1} /\ 1 .. 3 - 1 = {1, 2}
      /\ 1 .. 4 - 1 = {1, 2, 3} /\ 1 .. 5 - 1 = {1, 2, 3, 4}
  OBVIOUS
<1>5. ASSUME Daily!Before(r, s) PROVE SmallerKey(u, v)
  <2>1. PICK i \in 1 .. 5 : u[i] < v[i] /\ \A j \in 1 .. i - 1 : u[j] = v[j]
    BY <1>1, <1>2, <1>5
  <2> QED BY <1>3, <1>4, <2>1 DEF SmallerKey
<1>6. ASSUME SmallerKey(u, v) PROVE Daily!Before(r, s)
  <2> SUFFICES \E i \in 1 .. 5 : u[i] < v[i] /\ \A j \in 1 .. i - 1 : u[j] = v[j]
    BY <1>1, <1>2
  <2>1. CASE u[1] < v[1]
    BY <1>4, <2>1
  <2>2. CASE u[1] = v[1] /\ u[2] < v[2]
    BY <1>4, <2>2
  <2>3. CASE u[1] = v[1] /\ u[2] = v[2] /\ u[3] < v[3]
    BY <1>4, <2>3
  <2>4. CASE u[1] = v[1] /\ u[2] = v[2] /\ u[3] = v[3] /\ u[4] < v[4]
    BY <1>4, <2>4
  <2>5. CASE u[1] = v[1] /\ u[2] = v[2] /\ u[3] = v[3] /\ u[4] = v[4] /\ u[5] < v[5]
    BY <1>4, <2>5
  <2> QED BY <1>6, <2>1, <2>2, <2>3, <2>4, <2>5 DEF SmallerKey
<1> QED BY <1>5, <1>6 DEF u, v

Quotas(b, at) == Daily!ProviderQuotas(Daily!MetricsAt(b.metrics, at, Daily!FreshnessMaxAge(b)))

FieldNames ==
  {"id", "quotas", "remaining", "reset", "spend", "priority", "severity", "reason", "quality"}

ProviderFields(r, p, b, at, qs) ==
  /\ FieldNames \subseteq DOMAIN r
  /\ r.id = p /\ r.quotas = qs
  /\ r.remaining = IF qs = {} THEN Daily!NoQuota ELSE Daily!BestQuota(qs).remaining
  /\ r.reset = IF qs = {} THEN Daily!Never ELSE Daily!BestQuota(qs).reset
  /\ r.spend = Daily!Billed(Daily!MetricsAt(b.metrics, at, Daily!FreshnessMaxAge(b)))

(* The fields of a provider's row the properties are about, without the    *)
(* many others.                                                            *)
LEMMA FieldsOfProvider ==
  ASSUME NEW p, NEW b, NEW at
  PROVE  ProviderFields(Daily!ProviderRow(p, b, at), p, b, at, Quotas(b, at))
BY DEF Daily!ProviderRow, Daily!Row, Quotas, ProviderFields, FieldNames

BestOf(qs) == IF Daily!ActualQuotas(qs) = {} THEN qs ELSE Daily!ActualQuotas(qs)

ToolFields(r, t, at, qs) ==
  /\ FieldNames \subseteq DOMAIN r
  /\ r.id = Tool /\ r.quotas = qs
  /\ r.remaining = IF BestOf(qs) = {} THEN Daily!NoQuota ELSE Daily!BestQuota(BestOf(qs)).remaining
  /\ r.reset = IF BestOf(qs) = {} THEN Daily!Never ELSE Daily!BestQuota(BestOf(qs)).reset
  /\ r.spend = Daily!ExtraUsage(t)

(* The same fields of a tool's row.                                        *)
LEMMA FieldsOfTool ==
  ASSUME NEW t, NEW at
  PROVE  ToolFields(Daily!ToolRow(t, at), t, at, Daily!ToolQuotas(Daily!WindowsAt(t.windows, at)))
BY DEF Daily!ToolRow, Daily!Row, ToolFields, FieldNames, BestOf

(* What is made of a row in the end.                                       *)
LEMMA FinalFields ==
  ASSUME NEW row, NEW w, FieldNames \subseteq DOMAIN row
  PROVE  LET r == Daily!Finalized(row, w)
             a == Daily!Attention(row, w.warning, w.critical)
         IN /\ r.id = row.id /\ r.quotas = row.quotas /\ r.remaining = row.remaining
            /\ r.reset = row.reset /\ r.spend = row.spend
            /\ r.priority = a.priority /\ r.severity = a.severity
            /\ r.quality = Daily!Quality(row)
BY DEF Daily!Finalized, FieldNames

RowAt(id) == Daily!RowOf(id, world, drawn)

(* The order of the keys is transitive and decides between keys of         *)
(* different sources.                                                      *)
LEMMA SmallerKeys ==
  ASSUME NEW u \in [1 .. 5 -> Int], NEW v \in [1 .. 5 -> Int]
  PROVE  /\ SmallerKey(u, v) => u[1] <= v[1]
         /\ u[5] # v[5] => SmallerKey(u, v) \/ SmallerKey(v, u)
         /\ ~SmallerKey(u, u)
         /\ \A w \in [1 .. 5 -> Int] : SmallerKey(u, v) /\ SmallerKey(v, w) => SmallerKey(u, w)
<1> DEFINE K == [1 .. 5 -> Int]
<1>1. \A k \in K : k[1] \in Int /\ k[2] \in Int /\ k[3] \in Int /\ k[4] \in Int /\ k[5] \in Int
  OBVIOUS
<1>2. u \in K /\ v \in K
  OBVIOUS
<1> HIDE DEF K
<1>3. SmallerKey(u, v) => u[1] <= v[1]
  BY <1>1, <1>2 DEF SmallerKey
<1>4. u[5] # v[5] => SmallerKey(u, v) \/ SmallerKey(v, u)
  BY <1>1, <1>2 DEF SmallerKey
<1>5. ~SmallerKey(u, u)
  BY <1>1, <1>2 DEF SmallerKey
<1>6. ASSUME NEW w \in K, SmallerKey(u, v), SmallerKey(v, w) PROVE SmallerKey(u, w)
  BY <1>1, <1>2, <1>6 DEF SmallerKey
<1> QED BY <1>3, <1>4, <1>5, <1>6 DEF K

(* The rows are those of the enabled sources, in their order.              *)
RowsAreSortable ==
  /\ IsFiniteSet(world.enabled) /\ world.enabled \subseteq Daily!Sources
  /\ \A id \in world.enabled : Sortable(RowAt(id)) /\ RowAt(id).id = id

(* The rows are those of the enabled sources, each before the ones that    *)
(* follow it.                                                              *)
LEMMA RowsInOrder ==
  ASSUME RowsAreSortable
  PROVE  /\ Daily!Rows \in [1 .. Cardinality(world.enabled) -> {RowAt(id) : id \in world.enabled}]
         /\ \A i, j \in DOMAIN Daily!Rows : i < j => Daily!Before(Daily!Rows[i], Daily!Rows[j])
<1> DEFINE E == world.enabled
           n == Cardinality(E)
           all == {RowAt(id) : id \in E}
           Is(rows) == /\ rows \in [1 .. n -> all]
                       /\ \A i, j \in DOMAIN rows : i < j => Daily!Before(rows[i], rows[j])
           R == {p \in E \X E : Daily!Before(RowAt(p[1]), RowAt(p[2]))}
           key(id) == Daily!SortKey(RowAt(id))
<1>1. \A id \in E : key(id) \in [1 .. 5 -> Int] /\ key(id)[5] = Daily!Order(id)
  BY KeyOfRow DEF RowsAreSortable
<1>2. \A i, j \in E : <<i, j>> \in R <=> SmallerKey(key(i), key(j))
  BY BeforeIs DEF RowsAreSortable
<1>3. \A i, j \in E : i # j => key(i)[5] # key(j)[5]
  BY <1>1, OrderOfSources DEF RowsAreSortable
<1>4. Orders(R, E)
  <2> HIDE DEF R, E, key
  <2>1. \A x, y \in E : x # y => <<x, y>> \in R \/ <<y, x>> \in R
    BY <1>1, <1>2, <1>3, SmallerKeys
  <2>2. \A x, y, z \in E : <<x, y>> \in R /\ <<y, z>> \in R => <<x, z>> \in R
    BY <1>1, <1>2, SmallerKeys
  <2> QED BY <2>1, <2>2 DEF Orders
<1>5. PICK s : Sorted(R, E, s)
  <2>1. IsFiniteSet(E)
    BY DEF RowsAreSortable
  <2> HIDE DEF R, E
  <2> QED BY <1>4, <2>1, Sorting
<1>6. Is([i \in 1 .. n |-> RowAt(s[i])])
  <2> DEFINE rows == [i \in 1 .. n |-> RowAt(s[i])]
  <2>1. \A i \in 1 .. n : s[i] \in E /\ rows[i] = RowAt(s[i])
    BY <1>5 DEF Sorted
  <2>2. rows \in [1 .. n -> all]
    <3> HIDE DEF n, E
    <3> QED BY <2>1
  <2>3. \A i, j \in 1 .. n : i < j => Daily!Before(RowAt(s[i]), RowAt(s[j]))
    <3> SUFFICES ASSUME NEW i \in 1 .. n, NEW j \in 1 .. n, i < j
                 PROVE  Daily!Before(RowAt(s[i]), RowAt(s[j]))
      OBVIOUS
    <3>1. <<s[i], s[j]>> \in R
      <4> HIDE DEF R, E
      <4> QED BY <1>5 DEF Sorted
    <3> QED BY <3>1
  <2>4. DOMAIN rows = 1 .. n
    OBVIOUS
  <2> HIDE DEF rows, n, all
  <2> QED BY <2>1, <2>2, <2>3, <2>4
<1>7. Daily!Rows = CHOOSE rows : Is(rows)
  <2>1. Daily!Cardinality(E) = n
    BY SameCardinality
  <2>2. Daily!Rows = CHOOSE rows \in [1 .. Daily!Cardinality(E) -> all] :
          \A i, j \in DOMAIN rows : i < j => Daily!Before(rows[i], rows[j])
    BY DEF Daily!Rows, RowAt
  <2> QED BY <2>1, <2>2
<1>8. Is(Daily!Rows)
  <2> HIDE DEF Is
  <2> QED BY <1>6, <1>7
<1> QED BY <1>8

-----------------------------------------------------------------------------
(* Urgency *)

(* The ten rules give a place in the list that tells how severe it is.     *)
Placed(r) ==
  \/ r.priority \in {1, 2, 3, 4} /\ r.severity = "critical"
  \/ r.priority \in {6, 7} /\ r.severity = "warning"
  \/ r.priority = 8 /\ r.severity = "info"
  \/ r.priority = 10 /\ r.severity = "none"

(* Whatever reason a row is given, its place and its severity agree.       *)
LEMMA AttentionPlaced ==
  ASSUME NEW row, NEW warning, NEW critical
  PROVE  Placed(Daily!Attention(row, warning, critical))
<1> DEFINE P(p, s, r) == Daily!Reason(p, s, r)
<1>1. \A r : /\ Placed(P(1, "critical", r)) /\ Placed(P(2, "critical", r))
             /\ Placed(P(3, "critical", r)) /\ Placed(P(4, "critical", r))
             /\ Placed(P(6, "warning", r)) /\ Placed(P(7, "warning", r))
             /\ Placed(P(8, "info", r)) /\ Placed(P(10, "none", r))
  BY DEF Daily!Reason, Placed
<1> QED BY <1>1 DEF Daily!Attention

(* The earlier a reason's place, the more severe it is.                    *)
LEMMA SeverityOfPlace ==
  ASSUME NEW r, NEW s, Placed(r), Placed(s)
  PROVE  /\ Daily!SeverityRank[r.severity] \in 0 .. 3
         /\ r.priority <= s.priority =>
              Daily!SeverityRank[r.severity] >= Daily!SeverityRank[s.severity]
         /\ r.severity = "none" => Daily!SeverityRank[r.severity] = 0
<1>1. /\ Daily!SeverityRank["critical"] = 3 /\ Daily!SeverityRank["warning"] = 2
      /\ Daily!SeverityRank["info"] = 1 /\ Daily!SeverityRank["none"] = 0
  BY DEF Daily!SeverityRank
<1> QED BY <1>1 DEF Placed

(* So rows in the order of their keys are in the order of their severity.  *)
LEMMA SortedBySeverity ==
  ASSUME RowsAreSortable, \A id \in world.enabled : Placed(RowAt(id))
  PROVE  Daily!MostUrgentFirst
<1> DEFINE rows == Daily!Rows
           n == Cardinality(world.enabled)
           rank(i) == Daily!SeverityRank[rows[i].severity]
<1>0. n \in Nat
  BY FS_CardinalityType DEF RowsAreSortable
<1>1. /\ rows \in [1 .. n -> {RowAt(id) : id \in world.enabled}]
      /\ \A i, j \in DOMAIN rows : i < j => Daily!Before(rows[i], rows[j])
  BY RowsInOrder
<1> HIDE DEF rows, n
<1>2. \A i \in 1 .. n : Sortable(rows[i]) /\ Placed(rows[i])
  BY <1>1 DEF RowsAreSortable
<1>3. DOMAIN rows = 1 .. n
  BY <1>1
<1>4. ASSUME NEW i \in 1 .. n, NEW j \in 1 .. n, i < j PROVE rank(i) >= rank(j)
  <2>1. SmallerKey(Daily!SortKey(rows[i]), Daily!SortKey(rows[j]))
    BY <1>1, <1>2, <1>3, <1>4, BeforeIs
  <2>2. Daily!SortKey(rows[i])[1] <= Daily!SortKey(rows[j])[1]
    BY <1>2, <2>1, KeyOfRow, SmallerKeys
  <2>3. rows[i].priority <= rows[j].priority
    BY <1>2, <2>2, KeyOfRow
  <2> QED BY <1>2, <2>3, SeverityOfPlace
<1>5. \A i \in 1 .. n : rank(i) \in 0 .. 3
  BY <1>2, SeverityOfPlace
<1> DEFINE summary == Daily!Summary(rows, drawn)
           ranks == {Daily!SeverityRank[r.severity] : r \in Daily!Range(rows)} \cup {0}
<1>6. ranks = {rank(i) : i \in 1 .. n} \cup {0}
  BY <1>3 DEF Daily!Range
<1>7. summary.highestSeverity = Daily!Max(ranks)
  BY DEF Daily!Summary, Daily!MostSevere
<1>8. summary.mostUrgent =
        IF rows # <<>> /\ rows[1].severity # "none" THEN rows[1].severity ELSE "none"
  BY DEF Daily!Summary
<1>9. \A x \in ranks : (\A y \in ranks : x >= y) => Daily!Max(ranks) = x
  <2>1. \A x \in ranks : x \in Int
    BY <1>5, <1>6
  <2> HIDE DEF ranks
  <2> QED BY <2>1 DEF Daily!Max
<1> HIDE DEF summary, ranks
<1>10. Daily!SeverityRank["none"] = 0
  BY DEF Daily!SeverityRank
<1>11. summary.highestSeverity = Daily!SeverityRank[summary.mostUrgent]
  <2>1. CASE n = 0
    <3>1. rows = <<>>
      BY <1>1, <2>1
    <3>2. ranks = {0}
      BY <1>6, <2>1
    <3>3. Daily!Max(ranks) = 0
      BY <1>9, <3>2
    <3> QED BY <1>7, <1>8, <1>10, <3>1, <3>3
  <2>2. CASE n > 0
    <3>1. 1 \in 1 .. n /\ rows # <<>>
      BY <1>0, <1>3, <2>2
    <3>2. rank(1) \in ranks /\ rank(1) \in 0 .. 3
      BY <1>5, <1>6, <3>1
    <3>3. ASSUME NEW y \in ranks PROVE rank(1) >= y
      <4>1. CASE y = 0
        BY <3>2, <4>1
      <4>2. CASE y # 0
        <5>1. PICK i \in 1 .. n : y = rank(i)
          BY <1>6, <4>2
        <5> HIDE DEF rank
        <5>2. i = 1 \/ 1 < i
          OBVIOUS
        <5> QED BY <1>4, <3>1, <3>2, <5>1, <5>2
      <4> QED BY <4>1, <4>2
    <3>4. summary.highestSeverity = rank(1)
      <4> HIDE DEF rank
      <4> QED BY <1>7, <1>9, <3>2, <3>3
    <3> QED BY <1>8, <1>10, <3>1, <3>4
  <2> QED BY <1>0, <2>1, <2>2
<1> QED BY <1>3, <1>4, <1>11 DEF Daily!MostUrgentFirst, rows, summary

(* A metric, of the kinds the adapters report: a cost of no period is of   *)
(* the current window.                                                     *)
MetricType ==
  [kind : {"request_limit", "request_remaining", "cost", "credit_balance"}, value : Int,
   available : {TRUE}, currency : {"", "USD", "EUR"}, scope : {"api_key"},
   window : {"minute", "day", "month", "current"}, period : Int,
   source : {"response_headers", "billing_api", "estimated_pricing", "actual_api"},
   observed : Int, reset : Int, scoped : BOOLEAN]

WindowType ==
  [kind : {"quota"}, window : {"session", "week"}, value : Int, available : {TRUE},
   source : {"browser_sync"}, precision : {"official"}, observed : Int, reset : Int]

(* A quota that counts at a time, by the age its source allows.            *)
Counts(q, at, maxAge) ==
  /\ q.remaining \in 0 .. 100 /\ q.observed \in Int /\ q.reset \in Int
  /\ q.observed <= at /\ at - q.observed < maxAge
  /\ q.reset # Daily!Never => q.reset > at

(* A metric that is fresh was observed less than its age ago and before    *)
(* its reset.                                                              *)
LEMMA FreshCounts ==
  ASSUME NEW x, NEW at \in Int, NEW maxAge \in Int, x.observed \in Int, x.reset \in Int,
         Daily!MetricState(x, at, maxAge) = "fresh"
  PROVE  /\ x.observed <= at /\ at - x.observed < maxAge
         /\ x.reset # Daily!Never => x.reset > at
BY DEF Daily!MetricState, Daily!Old, Daily!Never

(* What is read of a metric later is what was set, and is available only   *)
(* while fresh.                                                            *)
LEMMA MetricAt ==
  ASSUME NEW ms \in Seq(MetricType), NEW at \in Int, NEW maxAge \in Int, NEW i \in DOMAIN ms
  PROVE  LET m_ == Daily!MetricsAt(ms, at, maxAge)[i]
         IN /\ m_.available => Daily!MetricState(ms[i], at, maxAge) = "fresh"
            /\ \A f \in {"kind", "value", "currency", "scope", "window", "period", "source",
                         "observed", "reset", "scoped"} : m_[f] = ms[i][f]
<1>1. ms[i] \in MetricType
  OBVIOUS
<1>2. DOMAIN ms[i] = {"kind", "value", "available", "currency", "scope", "window", "period",
                      "source", "observed", "reset", "scoped"}
  BY <1>1 DEF MetricType
<1>3. Daily!MetricsAt(ms, at, maxAge)[i] =
        [ms[i] EXCEPT !.available = @ /\ Daily!MetricState(ms[i], at, maxAge) = "fresh"]
  BY DEF Daily!MetricsAt
<1> DEFINE x == ms[i]
           b == x.available /\ Daily!MetricState(ms[i], at, maxAge) = "fresh"
           y == [x EXCEPT !.available = b]
<1>4. y.available = b
  BY <1>2
<1>5. \A f \in DOMAIN x : f # "available" => y[f] = x[f]
  OBVIOUS
<1> QED BY <1>2, <1>3, <1>4, <1>5

(* A provider's quota counts only while its metrics are fresh.             *)
LEMMA QuotaOfProvider ==
  ASSUME NEW ms \in Seq(MetricType), NEW at \in Int, NEW maxAge \in Int,
         NEW q \in Daily!ProviderQuotas(Daily!MetricsAt(ms, at, maxAge))
  PROVE  Counts(q, at, maxAge)
<1> DEFINE now_ == Daily!MetricsAt(ms, at, maxAge)
           qs == [i \in Daily!Counted(now_) |->
                    Daily!Quota(now_[i], Daily!Share(now_, i),
                                Daily!PairClass(now_[i].source, Daily!Limit(now_, i).source))]
<1>1. PICK i \in Daily!Counted(now_) : q = qs[i]
  BY DEF Daily!ProviderQuotas, Daily!FirstOfKind
<1>2. DOMAIN now_ = DOMAIN ms
  BY DEF Daily!MetricsAt
<1>3. i \in DOMAIN ms /\ now_[i].available /\ Daily!Share(now_, i) \in 0 .. 100
  BY <1>1, <1>2 DEF Daily!Counted
<1>4. /\ q.remaining = Daily!Share(now_, i) /\ q.reset = now_[i].reset
      /\ q.observed = now_[i].observed
  BY <1>1 DEF Daily!Quota
<1> HIDE DEF now_
<1>5. ms[i] \in MetricType
  BY <1>3
<1>6. ms[i].observed \in Int /\ ms[i].reset \in Int
  BY <1>5 DEF MetricType
<1>7. /\ Daily!MetricState(ms[i], at, maxAge) = "fresh"
      /\ q.reset = ms[i].reset /\ q.observed = ms[i].observed
  BY <1>3, <1>4, MetricAt DEF now_
<1> QED BY <1>3, <1>4, <1>6, <1>7, FreshCounts DEF Counts

(* A tool's quota counts only while its window is fresh.                   *)
LEMMA QuotaOfTool ==
  ASSUME NEW ws \in Seq(WindowType), NEW at \in Int,
         NEW q \in Daily!ToolQuotas(Daily!WindowsAt(ws, at))
  PROVE  Counts(q, at, Daily!FreshFor)
<1> DEFINE now_ == Daily!WindowsAt(ws, at)
           given == {i \in DOMAIN now_ : /\ now_[i].available
                                        /\ now_[i].precision # "availability_only"
                                        /\ now_[i].value \in 0 .. 100}
           qs == [i \in given |->
                    Daily!Quota(now_[i], now_[i].value, Daily!SourceClass(now_[i].source))]
<1>1. PICK i \in given : q = qs[i]
  BY DEF Daily!ToolQuotas, Daily!FirstOfKind
<1>2. DOMAIN now_ = DOMAIN ws
  BY DEF Daily!WindowsAt
<1>3. i \in DOMAIN ws /\ now_[i].available /\ now_[i].value \in 0 .. 100
  BY <1>1, <1>2
<1>4. /\ q.remaining = now_[i].value /\ q.reset = now_[i].reset
      /\ q.observed = now_[i].observed
  BY <1>1 DEF Daily!Quota
<1>5. ws[i] \in WindowType
  BY <1>3
<1>6. ws[i].observed \in Int /\ ws[i].reset \in Int /\ ws[i].source = "browser_sync"
  BY <1>5 DEF WindowType
<1>7. DOMAIN ws[i] = {"kind", "window", "value", "available", "source", "precision", "observed",
                      "reset"}
  BY <1>5 DEF WindowType
<1>8. now_[i] = [ws[i] EXCEPT
                   !.available = @ /\ Daily!MetricState(ws[i], at, Daily!FreshFor) = "fresh"]
  BY <1>3, <1>6 DEF Daily!WindowsAt, Daily!AuthenticatedQuota
<1> HIDE DEF now_
<1> DEFINE x == ws[i]
           b == x.available /\ Daily!MetricState(x, at, Daily!FreshFor) = "fresh"
           y == [x EXCEPT !.available = b]
<1>9. y.available = b
  BY <1>7
<1>10. \A f \in DOMAIN x : f # "available" => y[f] = x[f]
  OBVIOUS
<1>11. /\ Daily!MetricState(ws[i], at, Daily!FreshFor) = "fresh"
       /\ q.reset = ws[i].reset /\ q.observed = ws[i].observed
  BY <1>3, <1>4, <1>7, <1>8, <1>9, <1>10
<1>12. Daily!FreshFor \in Int
  BY DEF Daily!FreshFor
<1> QED BY <1>3, <1>4, <1>6, <1>11, <1>12, FreshCounts DEF Counts

(* Of quotas that count there is one than which none is better.            *)
LEMMA BestExists ==
  ASSUME NEW qs, qs # {}, NEW at \in Nat, \A q \in qs : \E maxAge \in Int : Counts(q, at, maxAge)
  PROVE  Daily!BestQuota(qs) \in qs
<1>1. \A q \in qs : /\ q.remaining \in Nat /\ q.reset \in Int
                    /\ q.reset # Daily!Never => q.reset \in Nat
  BY DEF Counts
<1> DEFINE Left == {q.remaining : q \in qs}
<1>2. PICK q0 \in qs : \A q \in qs : q0.remaining <= q.remaining
  <2>1. Left \subseteq Nat /\ Left # {}
    BY <1>1
  <2>2. PICK l \in Left : \A k \in Left : l <= k
    <3> HIDE DEF Left
    <3> QED BY <2>1, Least
  <2> QED BY <2>2
<1> DEFINE Reset == {q \in qs : q.remaining = q0.remaining /\ q.reset # Daily!Never}
           At == {q.reset : q \in Reset}
<1>3. CASE Reset = {}
  <2>1. q0 \in Daily!NoneBetter(qs)
    BY <1>1, <1>2, <1>3 DEF Daily!NoneBetter, Daily!Better
  <2> QED BY <2>1 DEF Daily!BestQuota, Daily!NoneBetter
<1>4. CASE Reset # {}
  <2>1. At \subseteq Nat /\ At # {}
    BY <1>1, <1>4
  <2>2. PICK q1 \in Reset : \A q \in Reset : q1.reset <= q.reset
    <3>1. PICK l \in At : \A k \in At : l <= k
      <4> HIDE DEF At
      <4> QED BY <2>1, Least
    <3> QED BY <3>1
  <2>3. q1 \in Daily!NoneBetter(qs)
    BY <1>1, <1>2, <2>2 DEF Daily!NoneBetter, Daily!Better
  <2> QED BY <2>3 DEF Daily!BestQuota, Daily!NoneBetter
<1> QED BY <1>3, <1>4

BackendType ==
  [metrics : Seq(MetricType), lastSuccess : Int, next : Int,
   error : {"None", "Network", "Authentication"},
   state : {"Idle", "Refreshing", "Healthy", "Failed"},
   connected : BOOLEAN, loading : BOOLEAN, hasKey : BOOLEAN, billed : Nat]

ToolType ==
  [installed : BOOLEAN, syncing : BOOLEAN, watch : {"", "watch_unavailable"},
   diagnostic : {"", "network_error", "session_expired"},
   windows : Seq(WindowType), synced : Int, activity : Int, used : BOOLEAN, spent : Nat]

WorldType ==
  [backends : [Providers -> BackendType], tool : ToolType, enabled : SUBSET Daily!Sources,
   warning : Int, critical : Int]

(* The next refresh is due an interval after the last.                     *)
Refreshed(p, b) ==
  \/ b.lastSuccess = Daily!Never /\ b.next = Daily!Never
  \/ b.next = b.lastSuccess + Daily!Interval(p)

(* Once something was billed no cost is an estimate any more.              *)
CostsOf(b) ==
  \A c \in Range(b.metrics) : c.kind = "cost" =>
    /\ c.source = IF b.billed = 0 THEN "estimated_pricing" ELSE "billing_api"
    /\ c.window # "current" => c.period = 1

BackendInv(p, b) == b \in BackendType /\ Refreshed(p, b) /\ CostsOf(b)

DailyInv ==
  /\ now \in Nat /\ drawn \in Nat
  /\ world \in WorldType
  /\ \A p \in Providers : BackendInv(p, world.backends[p])

(* The intervals of the settings.                                          *)
LEMMA IntervalType == \A p : Daily!Interval(p) \in {1, 6}
BY DEF Daily!Interval

(* The members of short sequences.                                         *)
LEMMA RangeOfOne == \A a : Range(<<a>>) = {a}
<1> SUFFICES ASSUME NEW a PROVE Range(<<a>>) = {a}
  OBVIOUS
<1>1. DOMAIN <<a>> = {1} /\ <<a>>[1] = a
  OBVIOUS
<1> QED BY <1>1 DEF Range

LEMMA RangeOfTwo == \A a, b : Range(<<a, b>>) = {a, b}
<1> SUFFICES ASSUME NEW a, NEW b PROVE Range(<<a, b>>) = {a, b}
  OBVIOUS
<1>1. DOMAIN <<a, b>> = {1, 2} /\ <<a, b>>[1] = a /\ <<a, b>>[2] = b
  OBVIOUS
<1> QED BY <1>1 DEF Range

LEMMA RangeOfFour == \A a, b, c, d : Range(<<a, b, c, d>>) = {a, b, c, d}
<1> SUFFICES ASSUME NEW a, NEW b, NEW c, NEW d PROVE Range(<<a, b, c, d>>) = {a, b, c, d}
  OBVIOUS
<1> DEFINE s == <<a, b, c, d>>
<1>1. DOMAIN s = {1, 2, 3, 4} /\ s[1] = a /\ s[2] = b /\ s[3] = c /\ s[4] = d
  OBVIOUS
<1> HIDE DEF s
<1> QED BY <1>1 DEF Range, s

BilledCost(c) ==
  /\ c \in MetricType /\ c.kind = "cost" /\ c.source = "billing_api"
  /\ c.window # "current" => c.period = 1

(* A billing report begins with a cost that is billed, and has no others.  *)
LEMMA BilledReport ==
  ASSUME now \in Nat
  PROVE  LET news == Daily!Reported("billed")
         IN /\ news \in Seq(MetricType) /\ news # <<>>
            /\ \A c \in Range(news) : BilledCost(c)
            /\ BilledCost(news[1])
<1> DEFINE a == Daily!Cost(2, "USD", "day")
           b == Daily!Cost(9, "USD", "month")
           c == [Daily!Cost(4, "USD", "month") EXCEPT !.scoped = TRUE]
           d == Daily!Cost(6, "EUR", "month")
<1>1. BilledCost(a)
  BY DEF BilledCost, MetricType, Daily!Cost, Daily!Metric, Daily!Never
<1>2. BilledCost(b)
  BY DEF BilledCost, MetricType, Daily!Cost, Daily!Metric, Daily!Never
<1>3. BilledCost(c)
  <2> DEFINE x == Daily!Cost(4, "USD", "month")
  <2>1. x \in MetricType /\ x.kind = "cost" /\ x.source = "billing_api" /\ x.period = 1
    BY DEF MetricType, Daily!Cost, Daily!Metric, Daily!Never
  <2> HIDE DEF x
  <2>2. [x EXCEPT !.scoped = TRUE] \in MetricType
    BY <2>1 DEF MetricType
  <2>3. DOMAIN x = {"kind", "value", "available", "currency", "scope", "window", "period",
                    "source", "observed", "reset", "scoped"}
    BY <2>1 DEF MetricType
  <2>4. /\ c.kind = x.kind /\ c.source = x.source /\ c.period = x.period /\ c.window = x.window
    BY <2>3 DEF x
  <2> QED BY <2>1, <2>2, <2>4 DEF BilledCost, x
<1>4. BilledCost(d)
  BY DEF BilledCost, MetricType, Daily!Cost, Daily!Metric, Daily!Never
<1>5. Daily!Reported("billed") = <<a, b, c, d>>
  BY DEF Daily!Reported
<1> HIDE DEF a, b, c, d
<1>6. <<a, b, c, d>> \in Seq(MetricType) /\ <<a, b, c, d>> # <<>>
  BY <1>1, <1>2, <1>3, <1>4 DEF BilledCost
<1>7. <<a, b, c, d>>[1] = a
  OBVIOUS
<1>8. Range(<<a, b, c, d>>) = {a, b, c, d}
  BY RangeOfFour
<1>9. /\ \A x \in Range(<<a, b, c, d>>) : BilledCost(x)
      /\ BilledCost(<<a, b, c, d>>[1])
  BY <1>1, <1>2, <1>3, <1>4, <1>7, <1>8
<1> QED BY <1>5, <1>6, <1>9

EstimatedCost(c) ==
  /\ c \in MetricType /\ c.kind = "cost" /\ c.source = "estimated_pricing" /\ c.window = "current"

(* A cost that is estimated is reported as such.                           *)
LEMMA EstimatedReport ==
  ASSUME now \in Nat
  PROVE  LET news == Daily!Reported("estimated")
         IN /\ news \in Seq(MetricType) /\ news # <<>>
            /\ \A c \in Range(news) : EstimatedCost(c)
<1> DEFINE a == Daily!Metric("cost", 3, "USD", "current", Daily!Never, "estimated_pricing", now)
<1>1. EstimatedCost(a)
  BY DEF EstimatedCost, MetricType, Daily!Metric, Daily!Never
<1>2. Daily!Reported("estimated") = <<a>>
  BY DEF Daily!Reported
<1> HIDE DEF a
<1>3. <<a>> \in Seq(MetricType) /\ <<a>> # <<>>
  BY <1>1 DEF EstimatedCost
<1> QED BY <1>1, <1>2, <1>3, RangeOfOne

NoCost(c) == c \in MetricType /\ c.kind # "cost"

(* The other reports have no costs.                                        *)
LEMMA OtherReport ==
  ASSUME now \in Nat, NEW kind \in Daily!ReportKinds \ {"billed", "estimated"}
  PROVE  LET news == Daily!Reported(kind)
         IN /\ news \in Seq(MetricType) /\ news # <<>>
            /\ \A c \in Range(news) : NoCost(c)
<1> DEFINE a == Daily!RateLimit("request_limit", 50)
           b(n) == Daily!RateLimit("request_remaining", n)
           c == Daily!Metric("credit_balance", 7, "USD", "current", Daily!Never, "actual_api", now)
<1>0. ASSUME NEW k \in {"request_limit", "request_remaining"}, NEW n \in Int
      PROVE  NoCost(Daily!RateLimit(k, n))
  <2> DEFINE x == Daily!Metric(k, n, "", "minute", Daily!Never, "response_headers", now)
  <2>1. x \in MetricType /\ x.kind = k
    BY DEF MetricType, Daily!Metric, Daily!Never
  <2>2. Daily!RateLimit(k, n) = [x EXCEPT !.reset = now + 2]
    BY DEF Daily!RateLimit
  <2> HIDE DEF x
  <2>3. [x EXCEPT !.reset = now + 2] \in MetricType
    <3>1. now + 2 \in Int
      OBVIOUS
    <3> DEFINE at == now + 2
    <3> HIDE DEF at
    <3>2. at \in Int => [x EXCEPT !.reset = at] \in MetricType
      BY <2>1 DEF MetricType
    <3> QED BY <3>1, <3>2 DEF at
  <2>4. [x EXCEPT !.reset = now + 2].kind = x.kind
    BY <2>1 DEF MetricType
  <2> QED BY <2>1, <2>2, <2>3, <2>4 DEF NoCost
<1>1. NoCost(a)
  BY <1>0
<1>2. \A n \in Int : NoCost(b(n))
  BY <1>0
<1>3. NoCost(c)
  BY DEF NoCost, MetricType, Daily!Metric, Daily!Never
<1>4. \/ Daily!Reported(kind) = <<a, b(40)>> \/ Daily!Reported(kind) = <<a, b(5)>>
      \/ Daily!Reported(kind) = <<a, b(0)>> \/ Daily!Reported(kind) = <<c>>
  BY DEF Daily!Reported, Daily!RateLimits
<1> HIDE DEF a, b, c
<1>5. ASSUME NEW n \in Int
      PROVE  /\ <<a, b(n)>> \in Seq(MetricType) /\ <<a, b(n)>> # <<>>
             /\ \A x \in Range(<<a, b(n)>>) : NoCost(x)
  <2>1. NoCost(b(n))
    BY <1>2
  <2>2. Range(<<a, b(n)>>) = {a, b(n)}
    BY RangeOfTwo
  <2> QED BY <1>1, <2>1, <2>2 DEF NoCost
<1>6. /\ <<c>> \in Seq(MetricType) /\ <<c>> # <<>>
      /\ \A x \in Range(<<c>>) : NoCost(x)
  BY <1>3, RangeOfOne DEF NoCost
<1> DEFINE Fits(s) == s \in Seq(MetricType) /\ s # <<>> /\ \A x \in Range(s) : NoCost(x)
<1>7. Fits(<<a, b(40)>>) /\ Fits(<<a, b(5)>>) /\ Fits(<<a, b(0)>>) /\ Fits(<<c>>)
  BY <1>5, <1>6
<1> HIDE DEF Fits
<1>8. Fits(Daily!Reported(kind))
  BY <1>4, <1>7
<1> QED BY <1>8 DEF Fits

(* What a report does to the costs of a backend.                           *)
LEMMA ReportedCosts ==
  ASSUME now \in Nat, NEW kind \in Daily!ReportKinds, NEW b, b \in BackendType, CostsOf(b),
         kind = "estimated" => b.billed = 0, NEW billed \in Nat,
         billed = IF kind = "billed" THEN 9 ELSE b.billed
  PROVE  LET ms == Daily!SetMetrics(b.metrics, Daily!Reported(kind))
         IN /\ ms \in Seq(MetricType)
            /\ \A c \in Range(ms) : c.kind = "cost" =>
                 /\ c.source = IF billed = 0 THEN "estimated_pricing" ELSE "billing_api"
                 /\ c.window # "current" => c.period = 1
<1> DEFINE news == Daily!Reported(kind)
           ms == Daily!SetMetrics(b.metrics, news)
           Fit(c, n) == c.kind = "cost" =>
                          /\ c.source = IF n = 0 THEN "estimated_pricing" ELSE "billing_api"
                          /\ c.window # "current" => c.period = 1
<1>1. b.metrics \in Seq(MetricType) /\ b.billed \in Nat
  BY DEF BackendType
<1>2. news \in Seq(MetricType) /\ news # <<>>
  BY BilledReport, EstimatedReport, OtherReport
<1>3. /\ ms \in Seq(MetricType)
      /\ \A c \in Range(ms) :
           c \in Range(news) \/ (c \in Range(b.metrics) /\ ~Replaced(c, news[1]))
  <2> HIDE DEF news
  <2> QED BY <1>1, <1>2, ReportSet
<1>4. \A c \in Range(b.metrics) : Fit(c, b.billed)
  BY DEF CostsOf
<1>5. CASE kind = "billed"
  <2>1. (\A c \in Range(news) : BilledCost(c)) /\ BilledCost(news[1])
    BY <1>5, BilledReport
  <2> HIDE DEF news
  <2>2. ASSUME NEW c \in Range(ms) PROVE Fit(c, billed)
    <3>1. CASE c \in Range(news)
      BY <1>5, <2>1, <3>1 DEF BilledCost
    <3>2. CASE c \in Range(b.metrics) /\ ~Replaced(c, news[1])
      <4>1. Fit(c, b.billed)
        BY <1>4, <3>2
      <4>2. ~ (c.kind = "cost" /\ c.source = "estimated_pricing")
        BY <2>1, <3>2 DEF Replaced, BilledCost
      <4> QED BY <1>5, <4>1, <4>2
    <3> QED BY <1>3, <3>1, <3>2
  <2> QED BY <1>3, <2>2 DEF news
<1>6. CASE kind = "estimated"
  <2>1. \A c \in Range(news) : EstimatedCost(c)
    BY <1>6, EstimatedReport
  <2> HIDE DEF news
  <2>2. \A c \in Range(ms) : Fit(c, billed)
    BY <1>3, <1>4, <1>6, <2>1 DEF EstimatedCost
  <2> QED BY <1>3, <2>2 DEF news
<1>7. CASE kind \notin {"billed", "estimated"}
  <2>1. \A c \in Range(news) : NoCost(c)
    BY <1>7, OtherReport
  <2> HIDE DEF news
  <2>2. \A c \in Range(ms) : Fit(c, billed)
    BY <1>3, <1>4, <1>7, <2>1 DEF NoCost
  <2> QED BY <1>3, <2>2 DEF news
<1> QED BY <1>5, <1>6, <1>7

(* A window as a vendor told of it.                                        *)
LEMMA SyncedType ==
  ASSUME now \in Nat, NEW kind
  PROVE  Daily!Synced(kind) \in Seq(WindowType)
<1> DEFINE a == Daily!Window("quota", "session", IF kind = "plenty" THEN 60 ELSE 0,
                             "browser_sync", now + 2)
           b == Daily!Window("quota", "week", 50, "browser_sync", Daily!Never)
<1>1. a \in WindowType
  BY DEF WindowType, Daily!Window
<1>2. b \in WindowType
  BY DEF WindowType, Daily!Window, Daily!Never
<1>3. Daily!Synced(kind) = <<a, b>>
  BY DEF Daily!Synced
<1> HIDE DEF a, b
<1> QED BY <1>1, <1>2, <1>3

(* The greater and the smaller of two numbers are numbers.                 *)
LEMMA GreaterOfTwo == \A a, b \in Int : Daily!Max({a, b}) \in Int /\ Daily!Min({a, b}) \in Int
<1> SUFFICES ASSUME NEW a \in Int, NEW b \in Int
             PROVE  Daily!Max({a, b}) \in Int /\ Daily!Min({a, b}) \in Int
  OBVIOUS
<1>1. /\ \E x \in {a, b} : \A y \in {a, b} : x >= y
      /\ \E x \in {a, b} : \A y \in {a, b} : x <= y
  <2>1. CASE a <= b
    BY <2>1
  <2>2. CASE ~ (a <= b)
    BY <2>2
  <2> QED BY <2>1, <2>2
<1> QED BY <1>1 DEF Daily!Max, Daily!Min

(* Before the first refresh nothing is due, observed or billed.            *)
LEMMA DailyStarts == Daily!Init => DailyInv
<1> SUFFICES ASSUME Daily!Init PROVE DailyInv
  OBVIOUS
<1>1. PICK e \in SUBSET Daily!Sources :
        world = [backends |-> [p \in Providers |-> Daily!Silent], tool |-> Daily!Quiet,
                 enabled |-> e, warning |-> 80, critical |-> 95]
  BY DEF Daily!Init
<1>2. now = 0 /\ drawn = 0
  BY DEF Daily!Init
<1>3. <<>> \in Seq(MetricType) /\ <<>> \in Seq(WindowType)
  OBVIOUS
<1>4. Daily!Silent \in BackendType
  BY <1>3 DEF BackendType, Daily!Silent, Daily!Never
<1>5. \A p : BackendInv(p, Daily!Silent)
  <2>1. \A p : Refreshed(p, Daily!Silent)
    BY DEF Refreshed, Daily!Silent
  <2>2. CostsOf(Daily!Silent)
    BY NoneIn DEF CostsOf, Daily!Silent
  <2> QED BY <1>4, <2>1, <2>2 DEF BackendInv
<1>6. Daily!Quiet \in ToolType
  BY <1>3 DEF ToolType, Daily!Quiet, Daily!Never
<1>7. [p \in Providers |-> Daily!Silent] \in [Providers -> BackendType]
  BY <1>4
<1>8. world \in WorldType
  BY <1>1, <1>6, <1>7 DEF WorldType
<1>9. \A p \in Providers : world.backends[p] = Daily!Silent
  BY <1>1
<1> QED BY <1>2, <1>5, <1>8, <1>9 DEF DailyInv

(* A change of one backend.                                                *)
LEMMA BackendChanged ==
  ASSUME DailyInv, NEW p \in Providers, NEW b, BackendInv(p, b),
         Daily!Change([world EXCEPT !.backends[p] = b])
  PROVE  DailyInv'
<1>1. world' = [world EXCEPT !.backends[p] = b] /\ drawn' = now /\ now' = now
  BY DEF Daily!Change
<1>2. world \in WorldType /\ b \in BackendType
  BY DEF DailyInv, BackendInv
<1>3. world' \in WorldType /\ world'.backends = [world.backends EXCEPT ![p] = b]
  BY <1>1, <1>2 DEF WorldType
<1>4. world.backends \in [Providers -> BackendType]
  BY <1>2 DEF WorldType
<1>5. \A q \in Providers : world'.backends[q] = IF q = p THEN b ELSE world.backends[q]
  BY <1>3, <1>4
<1>6. \A q \in Providers : BackendInv(q, world'.backends[q])
  BY <1>5 DEF DailyInv
<1> QED BY <1>1, <1>3, <1>6 DEF DailyInv, BackendInv, Refreshed, CostsOf

(* The fields of a backend.                                                *)
LEMMA BackendFields ==
  ASSUME NEW b \in BackendType
  PROVE  DOMAIN b = {"metrics", "lastSuccess", "next", "error", "state", "connected", "loading",
                     "hasKey", "billed"}
BY DEF BackendType

(* A refresh that begins changes no metric.                                *)
LEMMA BeginKeeps ==
  ASSUME DailyInv, NEW p \in Providers, Daily!Begin(p)
  PROVE  DailyInv'
<1> DEFINE b == world.backends[p]
           c == [b EXCEPT !.loading = TRUE, !.state = "Refreshing", !.error = "None"]
<1>1. BackendInv(p, b) /\ world \in WorldType
  BY DEF DailyInv
<1>2. [world EXCEPT !.backends[p].loading = TRUE, !.backends[p].state = "Refreshing",
                    !.backends[p].error = "None"] = [world EXCEPT !.backends[p] = c]
  BY <1>1 DEF WorldType
<1>3. Daily!Change([world EXCEPT !.backends[p] = c])
  BY <1>2 DEF Daily!Begin, Daily!Input
<1>4. BackendInv(p, c)
  <2> HIDE DEF b
  <2>1. c \in BackendType
    BY <1>1 DEF BackendInv, BackendType
  <2>2. /\ c.lastSuccess = b.lastSuccess /\ c.next = b.next
        /\ c.metrics = b.metrics /\ c.billed = b.billed
    BY <1>1, BackendFields DEF BackendInv
  <2> QED BY <1>1, <2>1, <2>2 DEF BackendInv, Refreshed, CostsOf
<1> HIDE DEF b, c
<1> QED BY <1>3, <1>4, BackendChanged

(* A refresh that has ended is the last one.                               *)
LEMMA FinishKeepsBackends ==
  ASSUME DailyInv, NEW p \in Providers, NEW b \in BackendType, CostsOf(b), Daily!Finish(p, b)
  PROVE  DailyInv'
<1> DEFINE c == [b EXCEPT !.loading = FALSE, !.lastSuccess = now,
                          !.next = now + Daily!Interval(p)]
<1>1. Daily!Change([world EXCEPT !.backends[p] = c])
  BY DEF Daily!Finish
<1>2. BackendInv(p, c)
  <2>1. now \in Int /\ now + Daily!Interval(p) \in Int
    BY IntervalType DEF DailyInv
  <2> DEFINE at == now + Daily!Interval(p)
  <2> HIDE DEF at
  <2>2. [b EXCEPT !.loading = FALSE, !.lastSuccess = now, !.next = at] \in BackendType
    BY <2>1 DEF BackendType, at
  <2>3. c.lastSuccess = now /\ c.next = at /\ c.metrics = b.metrics /\ c.billed = b.billed
    BY BackendFields DEF at
  <2> QED BY <2>2, <2>3 DEF BackendInv, Refreshed, CostsOf, at
<1> HIDE DEF c
<1> QED BY <1>1, <1>2, BackendChanged

(* A report sets its metrics, and its backend is next due an interval      *)
(* later.                                                                  *)
LEMMA ReportKeeps ==
  ASSUME DailyInv, NEW p \in Providers, Daily!Report(p)
  PROVE  DailyInv'
<1> DEFINE b == world.backends[p]
<1>1. PICK kind \in Daily!ReportKinds :
        /\ kind = "estimated" => b.billed = 0
        /\ Daily!Finish(p, [b EXCEPT !.metrics = Daily!SetMetrics(@, Daily!Reported(kind)),
                                     !.connected = TRUE, !.state = "Healthy",
                                     !.billed = IF kind = "billed" THEN 9 ELSE @])
  BY DEF Daily!Report
<1>2. b \in BackendType /\ CostsOf(b) /\ now \in Nat
  BY DEF DailyInv, BackendInv
<1> HIDE DEF b
<1> DEFINE ms == Daily!SetMetrics(b.metrics, Daily!Reported(kind))
           n == IF kind = "billed" THEN 9 ELSE b.billed
           c == [b EXCEPT !.metrics = ms, !.connected = TRUE, !.state = "Healthy", !.billed = n]
<1>3. n \in Nat
  BY <1>2 DEF BackendType
<1>4. /\ ms \in Seq(MetricType)
      /\ \A x \in Range(ms) : x.kind = "cost" =>
           /\ x.source = IF n = 0 THEN "estimated_pricing" ELSE "billing_api"
           /\ x.window # "current" => x.period = 1
  <2>1. kind = "estimated" => b.billed = 0
    BY <1>1
  <2> QED BY <1>2, <1>3, <2>1, ReportedCosts
<1>5. Daily!Finish(p, c)
  BY <1>1
<1> HIDE DEF ms, n
<1>6. c \in BackendType
  BY <1>2, <1>3, <1>4 DEF BackendType
<1>7. c.metrics = ms /\ c.billed = n
  BY <1>2, BackendFields
<1>8. CostsOf(c)
  BY <1>4, <1>7 DEF CostsOf
<1> HIDE DEF c
<1> QED BY <1>5, <1>6, <1>8, FinishKeepsBackends

(* A refresh that fails keeps the metrics of the last report.              *)
LEMMA FailKeeps ==
  ASSUME DailyInv, NEW p \in Providers, Daily!Fail(p)
  PROVE  DailyInv'
<1> DEFINE b == world.backends[p]
<1>1. PICK error \in {"Network", "Authentication"} :
        Daily!Finish(p, [b EXCEPT !.error = error, !.connected = FALSE, !.state = "Failed"])
  BY DEF Daily!Fail
<1>2. b \in BackendType /\ CostsOf(b)
  BY DEF DailyInv, BackendInv
<1> HIDE DEF b
<1> DEFINE c == [b EXCEPT !.error = error, !.connected = FALSE, !.state = "Failed"]
<1>3. c \in BackendType
  BY <1>2 DEF BackendType
<1>4. c.metrics = b.metrics /\ c.billed = b.billed
  BY <1>2, BackendFields
<1>5. CostsOf(c)
  BY <1>2, <1>4 DEF CostsOf
<1> HIDE DEF c
<1>6. Daily!Finish(p, c)
  BY <1>1 DEF c
<1> QED BY <1>3, <1>5, <1>6, FinishKeepsBackends

(* Every other change leaves the backends as they are.                     *)
LEMMA OthersKeep ==
  ASSUME DailyInv, world' \in WorldType, world'.backends = world.backends,
         now' \in Nat, drawn' \in Nat
  PROVE  DailyInv'
BY DEF DailyInv, BackendInv, Refreshed, CostsOf

(* The times of the invariant are numbers.                                 *)
LEMMA TimesInt == DailyInv => now \in Int /\ drawn \in Int
BY DEF DailyInv

(* What a tool observes are windows it observed now.                       *)
LEMMA UseToolKeeps ==
  ASSUME DailyInv, Daily!UseTool
  PROVE  DailyInv'
<1> DEFINE t == world.tool
           Told == {[t EXCEPT !.windows = Daily!Synced(kind), !.synced = now, !.diagnostic = "",
                              !.spent = IF kind = "used up" THEN 4 ELSE @] :
                      kind \in Daily!SyncKinds}
           Failed == {[t EXCEPT !.diagnostic = d] : d \in {"network_error", "session_expired"}}
           Else == {[t EXCEPT !.activity = now, !.used = TRUE], [t EXCEPT !.used = TRUE],
                    [t EXCEPT !.watch = IF @ = "" THEN "watch_unavailable" ELSE ""],
                    [t EXCEPT !.installed = ~@]}
<1>1. PICK u \in Told \cup Failed \cup Else : Daily!Input([world EXCEPT !.tool = u])
  BY DEF Daily!UseTool
<1>2. t \in ToolType /\ now \in Nat /\ world \in WorldType
  BY DEF DailyInv, WorldType
<1>3. now \in Int
  BY TimesInt
<1> HIDE DEF t
<1>4. u \in ToolType
  <2>1. CASE u \in Told
    <3>1. PICK kind \in Daily!SyncKinds :
            u = [t EXCEPT !.windows = Daily!Synced(kind), !.synced = now, !.diagnostic = "",
                          !.spent = IF kind = "used up" THEN 4 ELSE @]
      BY <2>1
    <3>2. Daily!Synced(kind) \in Seq(WindowType)
      BY <1>2, SyncedType
    <3> DEFINE n == IF kind = "used up" THEN 4 ELSE t.spent
               ws == Daily!Synced(kind)
    <3>3. n \in Nat
      <4>1. t.spent \in Nat
        BY <1>2 DEF ToolType
      <4> QED BY <4>1
    <3>4. u = [t EXCEPT !.windows = ws, !.synced = now, !.diagnostic = "", !.spent = n]
      BY <3>1
    <3> HIDE DEF n, ws
    <3>5. [t EXCEPT !.windows = ws, !.synced = now, !.diagnostic = "", !.spent = n] \in ToolType
      BY <1>2, <1>3, <3>2, <3>3 DEF ToolType, ws
    <3> QED BY <3>4, <3>5
  <2>2. CASE u \in Failed
    BY <1>2, <2>2 DEF ToolType
  <2>3. CASE u \in Else
    <3>1. [t EXCEPT !.activity = now, !.used = TRUE] \in ToolType
      BY <1>2, <1>3 DEF ToolType
    <3>2. [t EXCEPT !.used = TRUE] \in ToolType
      BY <1>2 DEF ToolType
    <3>3. [t EXCEPT !.watch = IF @ = "" THEN "watch_unavailable" ELSE ""] \in ToolType
      BY <1>2 DEF ToolType
    <3>4. [t EXCEPT !.installed = ~@] \in ToolType
      <4> DEFINE b == ~t.installed
      <4>1. b \in BOOLEAN
        OBVIOUS
      <4> HIDE DEF b
      <4>2. [t EXCEPT !.installed = b] \in ToolType
        BY <1>2, <4>1 DEF ToolType
      <4> QED BY <4>2 DEF b
    <3> QED BY <2>3, <3>1, <3>2, <3>3, <3>4
  <2> HIDE DEF Told, Failed, Else
  <2> QED BY <1>1, <2>1, <2>2, <2>3
<1>5. world' = [world EXCEPT !.tool = u] /\ drawn' = now /\ now' = now
  BY <1>1 DEF Daily!Input, Daily!Change
<1>6. world' \in WorldType /\ world'.backends = world.backends
  BY <1>2, <1>4, <1>5 DEF WorldType
<1> QED BY <1>2, <1>5, <1>6, OthersKeep

(* The settings change no source.                                          *)
LEMMA SettingsKeep ==
  ASSUME DailyInv, Daily!SetWarning \/ Daily!SetCritical \/ Daily!SetSourceEnabled
  PROVE  DailyInv'
<1>1. world \in WorldType /\ now \in Nat
  BY DEF DailyInv
<1>2. world.warning \in Int /\ world.critical \in Int /\ world.enabled \subseteq Daily!Sources
  BY <1>1 DEF WorldType
<1>3. CASE Daily!SetWarning
  <2>1. PICK t \in {60, 98} :
          Daily!Input([world EXCEPT !.warning = t, !.critical = Daily!Max({t, @})])
    BY <1>3 DEF Daily!SetWarning
  <2> DEFINE c == Daily!Max({t, world.critical})
  <2>2. t \in Int /\ c \in Int
    <3>1. t \in Int
      OBVIOUS
    <3> QED BY <1>2, <3>1, GreaterOfTwo
  <2>3. /\ world' = [world EXCEPT !.warning = t, !.critical = c]
        /\ drawn' = now /\ now' = now
    BY <2>1 DEF Daily!Input, Daily!Change
  <2> HIDE DEF c
  <2>4. world' \in WorldType /\ world'.backends = world.backends
    BY <1>1, <2>2, <2>3 DEF WorldType
  <2> QED BY <1>1, <2>3, <2>4, OthersKeep
<1>4. CASE Daily!SetCritical
  <2>1. PICK t \in {50, 85} :
          Daily!Input([world EXCEPT !.critical = t, !.warning = Daily!Min({t, @})])
    BY <1>4 DEF Daily!SetCritical
  <2> DEFINE c == Daily!Min({t, world.warning})
  <2>2. t \in Int /\ c \in Int
    <3>1. t \in Int
      OBVIOUS
    <3> QED BY ZenonT(60), <1>2, <3>1, GreaterOfTwo
  <2>3. /\ world' = [world EXCEPT !.critical = t, !.warning = c]
        /\ drawn' = now /\ now' = now
    BY <2>1 DEF Daily!Input, Daily!Change
  <2> HIDE DEF c
  <2>4. world' \in WorldType /\ world'.backends = world.backends
    BY <1>1, <2>2, <2>3 DEF WorldType
  <2> QED BY <1>1, <2>3, <2>4, OthersKeep
<1>5. CASE Daily!SetSourceEnabled
  <2>1. PICK id \in Daily!Sources :
          Daily!Input([world EXCEPT !.enabled = Daily!SymDiff(@, {id})])
    BY <1>5 DEF Daily!SetSourceEnabled
  <2> DEFINE e == Daily!SymDiff(world.enabled, {id})
  <2>2. e \subseteq Daily!Sources
    BY <1>2 DEF Daily!SymDiff
  <2>3. world' = [world EXCEPT !.enabled = e] /\ drawn' = now /\ now' = now
    BY <2>1 DEF Daily!Input, Daily!Change
  <2> HIDE DEF e
  <2>4. world' \in WorldType /\ world'.backends = world.backends
    BY <1>1, <2>2, <2>3 DEF WorldType
  <2> QED BY <1>1, <2>3, <2>4, OthersKeep
<1> QED BY <1>3, <1>4, <1>5

(* Every step keeps the invariant.                                         *)
LEMMA DailyKeeps == DailyInv /\ [Daily!Next]_(Daily!vars) => DailyInv'
<1> SUFFICES ASSUME DailyInv, [Daily!Next]_(Daily!vars) PROVE DailyInv'
  OBVIOUS
<1>1. now \in Nat /\ drawn \in Nat /\ world \in WorldType
  BY DEF DailyInv
<1>2. ASSUME NEW p \in Providers, Daily!Begin(p) PROVE DailyInv'
  BY <1>2, BeginKeeps
<1>3. ASSUME NEW p \in Providers, Daily!Report(p) PROVE DailyInv'
  BY <1>3, ReportKeeps
<1>4. ASSUME NEW p \in Providers, Daily!Fail(p) PROVE DailyInv'
  BY <1>4, FailKeeps
<1>5. CASE Daily!UseTool
  BY <1>5, UseToolKeeps
<1>6. CASE Daily!SetWarning \/ Daily!SetCritical \/ Daily!SetSourceEnabled
  BY <1>6, SettingsKeep
<1>7. CASE Daily!Tick
  <2>1. now' = now + 1 /\ world' = world /\ drawn' = drawn
    BY <1>7 DEF Daily!Tick
  <2> QED BY <1>1, <2>1, OthersKeep
<1>8. CASE Daily!Present
  <2>1. now' = now /\ world' = world /\ drawn' = now
    BY <1>8 DEF Daily!Present
  <2> QED BY <1>1, <2>1, OthersKeep
<1>9. CASE UNCHANGED Daily!vars
  <2>1. now' = now /\ world' = world /\ drawn' = drawn
    BY <1>9 DEF Daily!vars
  <2> QED BY <1>1, <2>1, OthersKeep
<1> QED BY <1>2, <1>3, <1>4, <1>5, <1>6, <1>7, <1>8, <1>9 DEF Daily!Next, Daily!Finishing

(* The image of a finite set is finite.                                    *)
LEMMA FiniteImage ==
  ASSUME NEW S, IsFiniteSet(S), NEW f
  PROVE  IsFiniteSet({f[x] : x \in S})
<1> DEFINE T == {f[x] : x \in S}
           g == [x \in S |-> f[x]]
<1>1. g \in Surjection(S, T)
  BY DEF Surjection
<1> HIDE DEF g, T
<1> QED BY <1>1, FS_Surjection DEF T

(* The sum of a function's values does not depend on the instance that     *)
(* adds them.                                                              *)
LEMMA DailySum == \A f : Daily!SumFunction(f) = SumFunctionOnSet(f, DOMAIN f)
BY DEF Daily!SumFunction, Daily!SumFunctionOnSet, Daily!FoldFunctionOnSet,
       Daily!MapThenFoldSet, SumFunctionOnSet, FoldFunctionOnSet, MapThenFoldSet

(* Spend is a finite set of costs, those of a window that is not current   *)
(* of one period.                                                          *)
PlainSpend(spend) ==
  /\ IsFiniteSet(spend)
  /\ \A e \in spend : /\ e.metric.value \in Int
                      /\ e.metric.window # "current" => e.metric.period = 1

KeyOf(e) == Daily!GroupKey(e.metric, e.id)

(* What the key of a group of spend is made of.                            *)
LEMMA KeyParts ==
  ASSUME NEW spend, PlainSpend(spend), NEW e \in spend
  PROVE  KeyOf(e) = <<Daily!SpendQuality(e.metric), e.metric.currency, e.metric.window,
                      IF e.metric.window = "current" THEN e.id ELSE
                      IF e.metric.period = Daily!Never THEN e.id ELSE e.metric.period>>
BY DEF KeyOf, Daily!GroupKey

Agree(rows, c, quality) ==
  LET T == {e \in Daily!Spend(rows) :
              e.metric.currency = c /\ Daily!SpendQuality(e.metric) = quality}
      G == {g \in Daily!SpendGroups(rows) : g.currency = c /\ g.quality = quality}
  IN Daily!SumFunction([e \in T |-> e.metric.value]) = Daily!SumFunction([g \in G |-> g.value])

(* The groups of a currency and quality add up to its spend, as no two     *)
(* keys give the same group.                                               *)
LEMMA GroupsAddUp ==
  ASSUME NEW rows, PlainSpend(Daily!Spend(rows)), NEW c, NEW quality
  PROVE  Agree(rows, c, quality)
<1> DEFINE spend == Daily!Spend(rows)
           T == {e \in spend : e.metric.currency = c /\ Daily!SpendQuality(e.metric) = quality}
           G == {g \in Daily!SpendGroups(rows) : g.currency = c /\ g.quality = quality}
           of(k) == {e \in spend : KeyOf(e) = k}
           label(k) == (CHOOSE e \in of(k) : TRUE).metric
           group(k) == [currency |-> label(k).currency, window |-> label(k).window,
                        quality |-> Daily!SpendQuality(label(k)), sources |-> {e.id : e \in of(k)},
                        value |-> Daily!SumFunction([e \in of(k) |-> e.metric.value])]
           f == [e \in T |-> e.metric.value]
           key == [e \in T |-> group(KeyOf(e))]
           part == [g \in G |-> g.value]
<1>1. Daily!SpendGroups(rows) = {group(k) : k \in {KeyOf(e) : e \in spend}}
  BY DEF Daily!SpendGroups, KeyOf
<1>2. PlainSpend(spend)
  OBVIOUS
<1> HIDE DEF spend
<1>3. IsFiniteSet(T) /\ \A e \in T : f[e] \in Int
  <2>1. IsFiniteSet(T)
    BY <1>2, FS_Subset DEF PlainSpend
  <2> QED BY <1>2, <2>1 DEF PlainSpend
<1>4. ASSUME NEW e \in spend
      PROVE  /\ label(KeyOf(e)).currency = e.metric.currency
             /\ label(KeyOf(e)).window = e.metric.window
             /\ Daily!SpendQuality(label(KeyOf(e))) = Daily!SpendQuality(e.metric)
  <2> DEFINE d == CHOOSE d \in of(KeyOf(e)) : TRUE
  <2>1. e \in of(KeyOf(e))
    OBVIOUS
  <2>2. d \in of(KeyOf(e))
    BY <2>1
  <2>3. label(KeyOf(e)) = d.metric
    OBVIOUS
  <2>4. d \in spend /\ KeyOf(d) = KeyOf(e)
    BY <2>2
  <2> HIDE DEF d, label, of
  <2>5. /\ Daily!SpendQuality(d.metric) = Daily!SpendQuality(e.metric)
        /\ d.metric.currency = e.metric.currency /\ d.metric.window = e.metric.window
    BY <1>2, <2>4, KeyParts
  <2> QED BY <2>3, <2>5
<1>5. ASSUME NEW e \in spend
      PROVE  /\ group(KeyOf(e)).currency = e.metric.currency
             /\ group(KeyOf(e)).window = e.metric.window
             /\ group(KeyOf(e)).quality = Daily!SpendQuality(e.metric)
             /\ group(KeyOf(e)).sources = {d.id : d \in of(KeyOf(e))}
             /\ group(KeyOf(e)).value = Daily!SumFunction([d \in of(KeyOf(e)) |-> d.metric.value])
  <2> HIDE DEF label, of
  <2> QED BY <1>4
<1>6. ASSUME NEW e \in spend, NEW d \in spend, group(KeyOf(e)) = group(KeyOf(d))
      PROVE  KeyOf(e) = KeyOf(d)
  <2> HIDE DEF group
  <2>1. /\ e.metric.currency = d.metric.currency /\ e.metric.window = d.metric.window
        /\ Daily!SpendQuality(e.metric) = Daily!SpendQuality(d.metric)
        /\ {x.id : x \in of(KeyOf(e))} = {x.id : x \in of(KeyOf(d))}
    BY <1>5, <1>6
  <2>2. CASE e.metric.window = "current"
    <3>1. \A x \in of(KeyOf(e)) : x.id = e.id
      <4>1. \A x \in of(KeyOf(e)) : x \in spend /\ KeyOf(x) = KeyOf(e)
        OBVIOUS
      <4>2. \A x \in spend : KeyOf(x) = KeyOf(e) => x.metric.window = "current" /\ x.id = e.id
        BY <1>2, <2>2, KeyParts
      <4> QED BY <4>1, <4>2
    <3>2. d \in of(KeyOf(d))
      OBVIOUS
    <3>3. d.id \in {x.id : x \in of(KeyOf(e))}
      BY <2>1, <3>2
    <3>4. d.id = e.id
      BY <3>1, <3>3
    <3> QED BY <1>2, <2>1, <2>2, <3>4, KeyParts
  <2>3. CASE e.metric.window # "current"
    <3>1. e.metric.period = 1 /\ d.metric.period = 1 /\ d.metric.window # "current"
      BY <1>2, <2>1, <2>3 DEF PlainSpend
    <3> QED BY <1>2, <2>1, <3>1, KeyParts DEF Daily!Never
  <2> QED BY <2>2, <2>3
<1> HIDE DEF label
<1>7. G = {key[e] : e \in T}
  <2>1. \A e \in T : e \in spend /\ key[e] = group(KeyOf(e))
    OBVIOUS
  <2>2. ASSUME NEW g \in G PROVE g \in {key[e] : e \in T}
    <3>1. PICK e \in spend : g = group(KeyOf(e))
      <4>1. g \in Daily!SpendGroups(rows)
        OBVIOUS
      <4> HIDE DEF group
      <4> QED BY <1>1, <4>1
    <3> HIDE DEF group
    <3>2. e \in T
      BY <1>5, <3>1
    <3> QED BY <2>1, <3>1, <3>2
  <2>3. ASSUME NEW e \in T PROVE key[e] \in G
    <3>1. key[e] = group(KeyOf(e)) /\ e \in spend
      BY <2>1
    <3>2. group(KeyOf(e)) \in Daily!SpendGroups(rows)
      <4> HIDE DEF group
      <4> QED BY <1>1, <3>1
    <3> HIDE DEF group
    <3> QED BY <1>5, <3>1, <3>2
  <2> HIDE DEF G, key, T
  <2> QED BY <2>2, <2>3
<1>8. IsFiniteSet(G)
  <2> HIDE DEF G, key, T
  <2> QED BY <1>3, <1>7, FiniteImage
<1>9. ASSUME NEW g \in G PROVE part[g] = SumFunctionOnSet(f, Class(T, key, g))
  <2>1. PICK e \in T : g = key[e]
    <3> HIDE DEF G, key, T
    <3> QED BY <1>7
  <2>2. e \in spend /\ g = group(KeyOf(e))
    BY <2>1
  <2> DEFINE P == of(KeyOf(e))
             h == [d \in P |-> d.metric.value]
  <2>3. part[g] = Daily!SumFunction(h)
    <3> HIDE DEF group
    <3> QED BY <1>5, <2>2
  <2>4. Daily!SumFunction(h) = SumFunctionOnSet(h, P)
    <3>1. DOMAIN h = P
      OBVIOUS
    <3> HIDE DEF h, P
    <3> QED BY <3>1, DailySum
  <2>5. Class(T, key, g) = P
    <3>1. ASSUME NEW d \in Class(T, key, g) PROVE d \in P
      <4>1. d \in spend /\ group(KeyOf(d)) = group(KeyOf(e))
        BY <2>2, <3>1 DEF Class
      <4> HIDE DEF group
      <4> QED BY <1>6, <2>2, <4>1
    <3>2. ASSUME NEW d \in P PROVE d \in Class(T, key, g)
      <4>1. d \in spend /\ KeyOf(d) = KeyOf(e)
        BY <3>2
      <4>2. /\ d.metric.currency = e.metric.currency
            /\ Daily!SpendQuality(d.metric) = Daily!SpendQuality(e.metric)
        BY <1>2, <2>2, <4>1, KeyParts
      <4>3. d \in T
        BY <2>1, <4>1, <4>2
      <4>4. key[d] = group(KeyOf(e))
        BY <4>1, <4>3
      <4> QED BY <2>2, <4>3, <4>4 DEF Class
    <3> HIDE DEF P
    <3> QED BY <3>1, <3>2
  <2>6. P \subseteq T
    BY <2>5 DEF Class
  <2>7. \A d \in P : f[d] \in Int /\ h[d] = f[d]
    BY <1>3, <2>6
  <2>8. IsFiniteSet(P)
    <3> HIDE DEF P, T
    <3> QED BY <1>3, <2>6, FS_Subset
  <2>9. SumFunctionOnSet(h, P) = SumFunctionOnSet(f, P)
    <3> HIDE DEF h, P, f
    <3> QED BY <2>7, <2>8, SumSame
  <2> HIDE DEF P, h, part
  <2> QED BY <2>3, <2>4, <2>5, <2>9
<1>10. \A e \in T : key[e] \in G
  <2> HIDE DEF G, key, T
  <2> QED BY <1>7
<1>11. SumFunctionOnSet(part, G) = SumFunctionOnSet(f, T)
  <2> HIDE DEF G, key, T, part, f
  <2> QED BY <1>3, <1>8, <1>9, <1>10, SumByClass
<1>12. /\ Daily!SumFunction(f) = SumFunctionOnSet(f, T)
       /\ Daily!SumFunction(part) = SumFunctionOnSet(part, G)
  <2>1. DOMAIN f = T /\ DOMAIN part = G
    OBVIOUS
  <2> HIDE DEF G, T, part, f
  <2> QED BY <2>1, DailySum
<1> QED BY <1>11, <1>12 DEF Agree, spend

(* How old a quota of a row may be.                                        *)
AgeOf(id) ==
  IF id = Tool THEN Daily!FreshFor
  ELSE Daily!Max({Daily!FreshFor, Daily!Interval(id) + Daily!Grace})

(* The costs of a row are all billed or all estimated.                     *)
SpendOf(spend) ==
  /\ IsFiniteSet(spend)
  /\ \A x \in spend : x.value \in Int /\ (x.window # "current" => x.period = 1)
  /\ \A x, y \in spend : Daily!SpendQuality(x) = Daily!SpendQuality(y)

(* A row as it must be.                                                    *)
RowInv(id, r) ==
  /\ r.id = id /\ Sortable(r) /\ Placed(r) /\ SpendOf(r.spend)
  /\ \A q \in r.quotas : Counts(q, drawn, AgeOf(id))

(* How old a backend's metrics may be is bounded by its refresh interval.  *)
LEMMA AgeOfProvider ==
  ASSUME NEW p \in Providers, NEW b \in BackendType, Refreshed(p, b)
  PROVE  /\ Daily!FreshnessMaxAge(b) \in Int /\ AgeOf(p) \in Int
         /\ Daily!FreshnessMaxAge(b) <= AgeOf(p)
<1> DEFINE i == Daily!Interval(p)
<1>1. \A a, c \in Int : Daily!Max({a, c}) \in {a, c} /\ Daily!Max({a, c}) >= a
  <2> SUFFICES ASSUME NEW a \in Int, NEW c \in Int
               PROVE  Daily!Max({a, c}) \in {a, c} /\ Daily!Max({a, c}) >= a
    OBVIOUS
  <2>1. \E x \in {a, c} : \A y \in {a, c} : x >= y
    <3>1. CASE a <= c
      BY <3>1
    <3>2. CASE ~ (a <= c)
      BY <3>2
    <3> QED BY <3>1, <3>2
  <2> QED BY <2>1 DEF Daily!Max
<1>2. i \in Int
  BY IntervalType
<1>3. p # Tool
  BY SourcesAssumption
<1>4. b.next \in Int /\ b.lastSuccess \in Int
  BY DEF BackendType
<1>5. AgeOf(p) = Daily!Max({3, i + 1})
  BY <1>3 DEF AgeOf, Daily!FreshFor, Daily!Grace
<1>6. AgeOf(p) \in Int /\ AgeOf(p) >= 3
  BY <1>1, <1>2, <1>5
<1>7. CASE Daily!Never \in {b.lastSuccess, b.next} \/ b.next <= b.lastSuccess
  <2>1. Daily!FreshnessMaxAge(b) = 3
    BY <1>7 DEF Daily!FreshnessMaxAge, Daily!FreshFor
  <2> QED BY <1>6, <2>1
<1>8. CASE ~ (Daily!Never \in {b.lastSuccess, b.next} \/ b.next <= b.lastSuccess)
  <2>1. b.next = b.lastSuccess + i
    BY <1>8 DEF Refreshed
  <2>2. Daily!FreshnessMaxAge(b) = Daily!Max({3, b.next - b.lastSuccess + 1})
    BY <1>8 DEF Daily!FreshnessMaxAge, Daily!FreshFor, Daily!Grace
  <2> HIDE DEF i
  <2>3. b.next - b.lastSuccess + 1 = i + 1
    BY <1>2, <1>4, <2>1
  <2> QED BY <1>5, <1>6, <2>2, <2>3
<1> QED BY <1>7, <1>8

(* Whatever the quotas that count, the row can be sorted.                  *)
LEMMA FinalRow ==
  ASSUME DailyInv, NEW id \in Daily!Sources, NEW row, RowAt(id) = Daily!Finalized(row, world),
         FieldNames \subseteq DOMAIN row,
         row.id = id, SpendOf(row.spend),
         \A q \in row.quotas : Counts(q, drawn, AgeOf(id)), AgeOf(id) \in Int,
         NEW best, best \subseteq row.quotas,
         row.remaining = IF best = {} THEN Daily!NoQuota ELSE Daily!BestQuota(best).remaining,
         row.reset = IF best = {} THEN Daily!Never ELSE Daily!BestQuota(best).reset
  PROVE  RowInv(id, RowAt(id))
<1> DEFINE r == RowAt(id)
           a == Daily!Attention(row, world.warning, world.critical)
<1>1. /\ r.id = row.id /\ r.quotas = row.quotas /\ r.remaining = row.remaining
      /\ r.reset = row.reset /\ r.spend = row.spend
      /\ r.priority = a.priority /\ r.severity = a.severity
      /\ r.quality = Daily!Quality(row)
  BY FinalFields
<1>2. Placed(a)
  BY AttentionPlaced
<1> HIDE DEF r, a
<1>3. Placed(r) /\ r.priority \in Int
  BY <1>1, <1>2 DEF Placed
<1>4. r.remaining \in Int /\ r.reset \in Int
  <2>1. CASE best = {}
    BY <1>1, <2>1 DEF Daily!NoQuota, Daily!Never
  <2>2. CASE best # {}
    <3>1. drawn \in Nat
      BY DEF DailyInv
    <3>2. \A q \in best : \E age \in Int : Counts(q, drawn, age)
      OBVIOUS
    <3>3. Daily!BestQuota(best) \in best
      BY <2>2, <3>1, <3>2, BestExists
    <3>4. Counts(Daily!BestQuota(best), drawn, AgeOf(id))
      BY <3>3
    <3> QED BY <1>1, <2>2, <3>4 DEF Counts
  <2> QED BY <2>1, <2>2
<1>5. r.quality \in {"actual", "estimated", "balance", "connectivity_only", "unavailable"}
  BY <1>1 DEF Daily!Quality
<1>6. Sortable(r)
  BY <1>1, <1>3, <1>4, <1>5 DEF Sortable
<1>7. RowInv(id, r)
  BY <1>1, <1>3, <1>6 DEF RowInv
<1> QED BY <1>7 DEF r

(* The costs of a provider's row.                                          *)
LEMMA SpendOfProvider ==
  ASSUME NEW b \in BackendType, CostsOf(b), NEW at \in Int, NEW maxAge \in Int
  PROVE  SpendOf(Daily!Billed(Daily!MetricsAt(b.metrics, at, maxAge)))
<1> DEFINE ms == b.metrics
           live == Daily!MetricsAt(ms, at, maxAge)
           S == Daily!Billed(live)
<1>1. ms \in Seq(MetricType)
  BY DEF BackendType
<1>2. DOMAIN live = DOMAIN ms
  BY DEF Daily!MetricsAt
<1>3. \A x \in S : x.kind = "cost" /\ \E i \in DOMAIN live : x = live[i]
  BY DEF Daily!Billed, Daily!Range
<1> HIDE DEF S
<1>4. ASSUME NEW x \in S
      PROVE  /\ x.value \in Int
             /\ x.source = IF b.billed = 0 THEN "estimated_pricing" ELSE "billing_api"
             /\ x.window # "current" => x.period = 1
  <2>1. PICK i \in DOMAIN ms : x = live[i]
    BY <1>2, <1>3
  <2>2. /\ x["kind"] = ms[i]["kind"] /\ x["value"] = ms[i]["value"]
        /\ x["source"] = ms[i]["source"] /\ x["window"] = ms[i]["window"]
        /\ x["period"] = ms[i]["period"]
    <3> HIDE DEF ms
    <3> QED BY <1>1, <2>1, MetricAt
  <2>3. /\ x.kind = ms[i].kind /\ x.value = ms[i].value /\ x.source = ms[i].source
        /\ x.window = ms[i].window /\ x.period = ms[i].period
    BY <2>2
  <2>4. ms[i] \in MetricType /\ ms[i] \in Range(ms)
    BY <1>1 DEF Range
  <2>5. ms[i].value \in Int
    BY <2>4 DEF MetricType
  <2> HIDE DEF live
  <2>6. ms[i].kind = "cost"
    BY <1>3, <2>3
  <2> QED BY <2>3, <2>4, <2>5, <2>6 DEF CostsOf
<1>5. IsFiniteSet(S)
  <2> DEFINE N == DOMAIN live
             T == {live[i] : i \in N}
  <2>1. IsFiniteSet(N)
    <3>1. N = 1 .. Len(ms) /\ Len(ms) \in Nat
      BY <1>1, <1>2
    <3>2. IsFiniteSet(1 .. Len(ms))
      BY <3>1, FS_Interval
    <3> QED BY <3>1, <3>2
  <2>2. IsFiniteSet(T)
    <3> HIDE DEF N, live
    <3> QED BY <2>1, FiniteImage
  <2>3. S \subseteq T
    BY <1>3
  <2> HIDE DEF T
  <2> QED BY <2>2, <2>3, FS_Subset
<1>6. \A x, y \in S : Daily!SpendQuality(x) = Daily!SpendQuality(y)
  BY <1>4 DEF Daily!SpendQuality
<1>7. SpendOf(S)
  BY <1>4, <1>5, <1>6 DEF SpendOf
<1> QED BY <1>7 DEF S

(* A provider's row counts only what is fresh, and spends only in one way. *)
LEMMA ProviderRowInv ==
  ASSUME DailyInv, NEW p \in Providers
  PROVE  RowInv(p, RowAt(p))
<1> DEFINE b == world.backends[p]
           age == Daily!FreshnessMaxAge(b)
           row == Daily!ProviderRow(p, b, drawn)
           qs == Quotas(b, drawn)
<1>1. BackendInv(p, b) /\ drawn \in Int
  BY DEF DailyInv
<1>2. p \in Daily!Sources /\ p # Tool
  BY SourcesAssumption DEF Daily!Sources
<1>3. RowAt(p) = Daily!Finalized(row, world)
  BY <1>2 DEF RowAt, Daily!RowOf
<1> HIDE DEF b
<1>4. b \in BackendType /\ Refreshed(p, b) /\ CostsOf(b)
  BY <1>1 DEF BackendInv
<1>5. age \in Int /\ AgeOf(p) \in Int /\ age <= AgeOf(p)
  BY <1>4, AgeOfProvider
<1>6. ProviderFields(row, p, b, drawn, qs)
  BY FieldsOfProvider
<1>7. b.metrics \in Seq(MetricType)
  BY <1>4 DEF BackendType
<1> HIDE DEF row
<1>8. \A q \in qs : Counts(q, drawn, AgeOf(p))
  <2>1. \A q \in qs : Counts(q, drawn, age)
    BY <1>1, <1>5, <1>7, QuotaOfProvider DEF Quotas, age
  <2> HIDE DEF qs
  <2> QED BY <1>1, <1>5, <2>1 DEF Counts
<1>9. SpendOf(row.spend)
  BY <1>1, <1>4, <1>5, <1>6, SpendOfProvider DEF ProviderFields
<1> HIDE DEF qs
<1> QED BY <1>2, <1>3, <1>5, <1>6, <1>8, <1>9, FinalRow DEF ProviderFields

(* A tool's row counts only what is fresh, and spends at most its extra    *)
(* usage.                                                                  *)
LEMMA ToolRowInv ==
  ASSUME DailyInv
  PROVE  RowInv(Tool, RowAt(Tool))
<1> DEFINE t == world.tool
           row == Daily!ToolRow(t, drawn)
           qs == Daily!ToolQuotas(Daily!WindowsAt(t.windows, drawn))

<1>1. t \in ToolType /\ drawn \in Int
  BY DEF DailyInv, WorldType
<1>2. Tool \in Daily!Sources
  BY DEF Daily!Sources
<1>3. RowAt(Tool) = Daily!Finalized(row, world)
  BY DEF RowAt, Daily!RowOf
<1> HIDE DEF t
<1>4. t.windows \in Seq(WindowType) /\ t.spent \in Nat
  BY <1>1 DEF ToolType
<1>5. AgeOf(Tool) = Daily!FreshFor /\ AgeOf(Tool) \in Int
  BY DEF AgeOf, Daily!FreshFor
<1>6. ToolFields(row, t, drawn, qs)
  BY FieldsOfTool
<1>7. \A q \in qs : Counts(q, drawn, AgeOf(Tool))
  BY <1>1, <1>4, <1>5, QuotaOfTool
<1>8. SpendOf(Daily!ExtraUsage(t))
  <2> DEFINE x == Daily!Metric("cost", t.spent, "USD", "current", Daily!Never,
                               "browser_sync", t.synced)
  <2>1. x.value = t.spent /\ x.window = "current"
    BY DEF Daily!Metric
  <2>2. Daily!ExtraUsage(t) = {} \/ Daily!ExtraUsage(t) = {x}
    BY DEF Daily!ExtraUsage
  <2>3. t.spent \in Int
    BY <1>4
  <2> HIDE DEF x
  <2>4. IsFiniteSet({}) /\ IsFiniteSet({x})
    BY FS_EmptySet, FS_Singleton
  <2> QED BY <2>1, <2>2, <2>3, <2>4 DEF SpendOf
<1>9. BestOf(qs) \subseteq qs
  BY DEF BestOf, Daily!ActualQuotas
<1> HIDE DEF row, qs
<1>10. SpendOf(row.spend)
  BY <1>6, <1>8 DEF ToolFields
<1> QED BY <1>2, <1>3, <1>5, <1>6, <1>7, <1>9, <1>10, FinalRow DEF ToolFields

(* So does the row of every source that is enabled.                        *)
LEMMA RowsAreInvariant ==
  ASSUME DailyInv
  PROVE  /\ RowsAreSortable
         /\ \A id \in world.enabled : RowInv(id, RowAt(id))
<1>1. \A id \in Daily!Sources : RowInv(id, RowAt(id))
  BY ProviderRowInv, ToolRowInv DEF Daily!Sources
<1>2. world.enabled \subseteq Daily!Sources
  BY DEF DailyInv, WorldType
<1>3. IsFiniteSet(Daily!Sources)
  <2>1. IsFiniteSet({Tool})
    BY FS_Singleton
  <2> QED BY <2>1, SourcesAssumption, FS_Union DEF Daily!Sources
<1>4. IsFiniteSet(world.enabled)
  BY <1>2, <1>3, FS_Subset
<1> QED BY <1>1, <1>2, <1>4 DEF RowsAreSortable, RowInv

(* Every row is that of an enabled source.                                 *)
LEMMA RowsOfSources ==
  ASSUME DailyInv, NEW row \in Daily!Range(Daily!Rows)
  PROVE  \E id \in world.enabled : row = RowAt(id) /\ RowInv(id, row)
<1>1. Daily!Rows \in [1 .. Cardinality(world.enabled) -> {RowAt(id) : id \in world.enabled}]
  BY RowsAreInvariant, RowsInOrder
<1> DEFINE rows == Daily!Rows
           n == Cardinality(world.enabled)
<1>2. \E i \in DOMAIN rows : row = rows[i]
  BY DEF Daily!Range
<1> HIDE DEF rows, n
<1>3. PICK i \in 1 .. n : row = rows[i]
  BY <1>1, <1>2 DEF rows, n
<1>4. rows[i] \in {RowAt(id) : id \in world.enabled}
  BY <1>1, <1>3 DEF rows, n
<1> QED BY <1>3, <1>4, RowsAreInvariant

(* Nothing old counts in a row.                                            *)
LEMMA NothingOld == DailyInv => Daily!NothingOldCounts
<1> SUFFICES ASSUME DailyInv, NEW row \in Daily!Range(Daily!Rows), NEW q \in row.quotas
             PROVE  /\ q.observed <= drawn
                    /\ drawn - q.observed <
                         (IF row.id = Tool THEN Daily!FreshFor
                          ELSE Daily!Max({Daily!FreshFor, Daily!Interval(row.id) + Daily!Grace}))
                    /\ q.reset # Daily!Never => q.reset > drawn
  BY DEF Daily!NothingOldCounts
<1>1. PICK id \in world.enabled : RowInv(id, row)
  BY RowsOfSources
<1>2. row.id = id /\ Counts(q, drawn, AgeOf(id))
  BY <1>1 DEF RowInv
<1> QED BY <1>2 DEF Counts, AgeOf

(* The most urgent row is the first.                                       *)
LEMMA MostUrgent == DailyInv => Daily!MostUrgentFirst
BY RowsAreInvariant, SortedBySeverity DEF RowInv

(* The groups of spend add up to what the rows spend.                      *)
LEMMA SpendAddsUp == DailyInv => Daily!SpendIsConserved
<1> SUFFICES ASSUME DailyInv PROVE Daily!SpendIsConserved
  OBVIOUS
<1> DEFINE rows == Daily!Range(Daily!Rows)
           spend == Daily!Spend(rows)
<1>1. \A r \in rows : \E id \in world.enabled : r = RowAt(id) /\ RowInv(id, r)
  BY RowsOfSources
<1> HIDE DEF rows
<1>2. \A e : e \in spend <=> \E r \in rows : \E x \in r.spend : e = [id |-> r.id, metric |-> x]
  BY DEF Daily!Spend
<1>3. \A e \in spend : \E r \in rows : e.metric \in r.spend /\ e.id = r.id
  BY <1>2
<1> HIDE DEF spend
<1>4. IsFiniteSet(spend)
  <2> DEFINE E == world.enabled
             rowOf == [id \in E |-> RowAt(id).spend]
             U == UNION {rowOf[id] : id \in E}
             entry == [p \in E \X U |-> [id |-> p[1], metric |-> p[2]]]
  <2>1. IsFiniteSet(E)
    BY RowsAreInvariant DEF RowsAreSortable
  <2>2. \A id \in E : IsFiniteSet(rowOf[id])
    BY RowsAreInvariant DEF RowInv, SpendOf
  <2>3. IsFiniteSet(U)
    <3>1. IsFiniteSet({rowOf[id] : id \in E})
      <4> HIDE DEF E, rowOf
      <4> QED BY <2>1, FiniteImage
    <3>2. \A T \in {rowOf[id] : id \in E} : IsFiniteSet(T)
      <4> HIDE DEF E, rowOf
      <4> QED BY <2>2
    <3> HIDE DEF E, rowOf
    <3> QED BY <3>1, <3>2, FS_UNION
  <2>4. IsFiniteSet(E \X U)
    <3> HIDE DEF E, U
    <3> QED BY <2>1, <2>3, FS_Product
  <2>5. IsFiniteSet({entry[p] : p \in E \X U})
    <3> HIDE DEF E, U, entry
    <3> QED BY <2>4, FiniteImage
  <2>6. ASSUME NEW e \in spend PROVE e \in {entry[p] : p \in E \X U}
    <3>1. PICK r \in rows : \E x \in r.spend : e = [id |-> r.id, metric |-> x]
      BY <1>2
    <3>2. PICK x \in r.spend : e = [id |-> r.id, metric |-> x]
      BY <3>1
    <3>3. PICK id \in E : r = RowAt(id) /\ RowInv(id, r)
      BY <1>1
    <3>4. r.id = id
      BY <3>3 DEF RowInv
    <3>5. x \in rowOf[id]
      BY <3>2, <3>3
    <3>6. <<id, x>> \in E \X U
      BY <3>3, <3>5
    <3>7. entry[<<id, x>>] = e
      <4> HIDE DEF E, U, rowOf
      <4> QED BY <3>2, <3>4, <3>6
    <3> HIDE DEF E, U, entry
    <3> QED BY <3>6, <3>7
  <2> HIDE DEF entry, E, U
  <2>7. spend \subseteq {entry[p] : p \in E \X U}
    BY <2>6
  <2> QED BY <2>5, <2>7, FS_Subset
<1>5. \A e \in spend :
        e.metric.value \in Int /\ (e.metric.window # "current" => e.metric.period = 1)
  BY <1>1, <1>3 DEF RowInv, SpendOf
<1>6. PlainSpend(Daily!Spend(rows))
  BY <1>4, <1>5 DEF PlainSpend, spend

<1>7. ASSUME NEW d \in spend, NEW e \in spend, d.id = e.id
      PROVE  Daily!SpendQuality(d.metric) = Daily!SpendQuality(e.metric)
  <2>1. PICK r \in rows : d.metric \in r.spend /\ d.id = r.id
    BY <1>3
  <2>2. PICK s \in rows : e.metric \in s.spend /\ e.id = s.id
    BY <1>3
  <2>3. PICK i \in world.enabled : r = RowAt(i) /\ RowInv(i, r)
    BY <1>1
  <2>4. PICK j \in world.enabled : s = RowAt(j) /\ RowInv(j, s)
    BY <1>1
  <2>5. i = j
    BY <1>7, <2>1, <2>2, <2>3, <2>4 DEF RowInv
  <2> QED BY <2>1, <2>2, <2>3, <2>4, <2>5 DEF RowInv, SpendOf
<1>8. \A c \in {"USD", "EUR"}, quality \in {"actual", "estimated"} : Agree(rows, c, quality)
  BY <1>6, GroupsAddUp
<1> QED BY <1>7, <1>8 DEF Daily!SpendIsConserved, Agree, rows, spend

(* The list has a row for every enabled source: it is as long as there are *)
(* sources, and no two of its rows are the same.                           *)
LEMMA EverySource == DailyInv => Daily!Range(Daily!Rows) = {RowAt(id) : id \in world.enabled}
<1> SUFFICES ASSUME DailyInv PROVE Daily!Range(Daily!Rows) = {RowAt(id) : id \in world.enabled}
  OBVIOUS
<1> DEFINE E == world.enabled
           n == Cardinality(E)
           all == {RowAt(id) : id \in E}
           rows == Daily!Rows
           shown_ == Daily!Range(rows)
           row == [id \in E |-> RowAt(id)]
<1>1. IsFiniteSet(E) /\ n \in Nat
  BY RowsAreInvariant, FS_CardinalityType DEF RowsAreSortable
<1>2. /\ rows \in [1 .. n -> all]
      /\ \A i, j \in DOMAIN rows : i < j => Daily!Before(rows[i], rows[j])
  BY RowsAreInvariant, RowsInOrder
<1>3. \A r \in all : Sortable(r)
  BY RowsAreInvariant DEF RowInv
<1>4. IsFiniteSet(all) /\ Cardinality(all) = n
  <2>1. row \in Surjection(E, all)
    BY DEF Surjection
  <2>2. \A i, j \in E : row[i] = row[j] => i = j
    BY RowsAreInvariant DEF RowInv
  <2> HIDE DEF E, all, row
  <2>3. row \in Injection(E, all)
    BY <2>1, <2>2 DEF Surjection, Injection, IsInjective
  <2> QED BY <1>1, <2>1, <2>3, FS_Surjection DEF n
<1> HIDE DEF rows, all
<1>5. DOMAIN rows = 1 .. n
  BY <1>2
<1>6. ASSUME NEW i \in 1 .. n, NEW j \in 1 .. n, i < j PROVE rows[i] # rows[j]
  <2>1. Sortable(rows[i]) /\ Sortable(rows[j])
    BY <1>2, <1>3
  <2>2. SmallerKey(Daily!SortKey(rows[i]), Daily!SortKey(rows[j]))
    BY <1>2, <1>5, <1>6, <2>1, BeforeIs
  <2> QED BY <2>1, <2>2, KeyOfRow, SmallerKeys
<1>7. shown_ \subseteq all
  BY <1>2, <1>5 DEF Daily!Range
<1>8. IsFiniteSet(1 .. n) /\ Cardinality(1 .. n) = n
  BY <1>1, FS_Interval
<1>9. Cardinality(shown_) = n
  <2>1. rows \in [1 .. n -> shown_] /\ \A y \in shown_ : \E i \in 1 .. n : rows[i] = y
    BY <1>2, <1>5 DEF Daily!Range
  <2>2. \A i, j \in 1 .. n : rows[i] = rows[j] => i = j
    <3> SUFFICES ASSUME NEW i \in 1 .. n, NEW j \in 1 .. n, rows[i] = rows[j] PROVE i = j
      OBVIOUS
    <3>1. ~ (i < j) /\ ~ (j < i)
      BY <1>6
    <3> QED BY <1>1, <3>1
  <2> HIDE DEF shown_, n
  <2>3. rows \in Surjection(1 .. n, shown_) /\ rows \in Injection(1 .. n, shown_)
    BY <2>1, <2>2 DEF Surjection, Injection, IsInjective
  <2> QED BY <1>8, <2>3, FS_Surjection
<1> HIDE DEF shown_, n
<1>10. shown_ = all
  BY <1>4, <1>7, <1>9, FS_Subset
<1> QED BY <1>10 DEF shown_, all, rows

(* Whatever the sources report, fail to report and are set to, and however *)
(* late: every enabled source has its row, no row counts a quota that is   *)
(* too old or past its reset, the first row is the most urgent, and the    *)
(* spend of the rows is conserved by the groups of the summary             *)
(* (dailystatemodel.cpp, rebuild and buildSummary).                        *)
THEOREM DailyStateStaysSound == Daily!Spec => []DailyStateIsSound
<1>1. DailyInv => DailyStateIsSound
  BY NothingOld, MostUrgent, SpendAddsUp DEF DailyStateIsSound, Daily!DailyStateIsSound
<1> QED BY <1>1, DailyStarts, DailyKeeps, PTL DEF Daily!Spec

(* The list leaves no enabled source out and shows no other                *)
(* (dailystatemodel.cpp, rebuild).                                         *)
THEOREM EverySourceIsShown ==
  Daily!Spec => [](Daily!Range(Daily!Rows) = {RowAt(id) : id \in world.enabled})
<1> DEFINE Complete == Daily!Range(Daily!Rows) = {RowAt(id) : id \in world.enabled}
<1>1. DailyInv => Complete
  BY EverySource
<1> HIDE DEF Complete
<1> QED BY <1>1, DailyStarts, DailyKeeps, PTL DEF Daily!Spec, Complete
=============================================================================
