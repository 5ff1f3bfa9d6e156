------------------------ MODULE BudgetDelivery_proofs ------------------------
(***************************************************************************)
(* Proofs about BudgetDelivery for every set of levels and channels, every *)
(* period length, cooldown and bound.                                      *)
(*                                                                         *)
(* The four state properties are proved together as the inductive          *)
(* invariant BudgetInv: a verdict can be trusted only because a settled    *)
(* event has no open row left that could still change it.                  *)
(***************************************************************************)
EXTENDS BudgetDelivery, TLAPS

(* Euclidean division is monotone: the clock only moves to later periods.  *)
LEMMA DivMono ==
  ASSUME NEW a \in Nat, NEW b \in Nat, NEW n \in Nat \ {0}, a <= b
  PROVE  a \div n \in Nat /\ b \div n \in Nat /\ a \div n <= b \div n
<1> DEFINE p == a \div n
           q == b \div n
<1>1. a = n * p + (a % n) /\ 0 <= a % n /\ a % n < n
  BY SMT
<1>2. b = n * q + (b % n) /\ 0 <= b % n /\ b % n < n
  BY SMT
<1>3. p \in Nat /\ q \in Nat
  BY SMT
<1>4. SUFFICES ASSUME q + 1 <= p PROVE FALSE
  BY <1>3, SMT
<1> HIDE DEF p, q
<1>5. n * p = n * (q + 1) + n * (p - (q + 1))
  BY <1>3, SMT
<1>6. n * (p - (q + 1)) >= 0
  BY <1>3, <1>4, SMT
<1>7. n * (q + 1) = n * q + n
  BY <1>3, SMT
<1> QED
  BY <1>1, <1>2, <1>3, <1>5, <1>6, <1>7, SMT

(* The period of a modelled minute is one of the periods of the model.     *)
LEMMA PeriodInRange ==
  ASSUME NEW t \in 0 .. MaxTime
  PROVE  PeriodAt(t) \in Periods
  BY BudgetAssumption, DivMono, SMT DEF PeriodAt, Periods

(* An evaluation announces at most one level: a risky state or a recovery. *)
LEMMA ActiveIsSingle ==
  ASSUME NEW f \in Forecast, NEW t \in Active(f), NEW u \in Active(f)
  PROVE  t = u
  BY BudgetAssumption DEF Active, LevelRaised, HasRecovered, Forecast

-----------------------------------------------------------------------------

BudgetInv ==
  /\ TypeOK
  /\ SettledEventsAreQuiet
  /\ VerdictMatchesReceipts
  /\ OneOpenAnnouncement

USE DEF Suppressed, EventStatus, Open, SlotStatus

(* Rows are pairs of an event and a channel.                               *)
LEMMA SlotPairs ==
  /\ \A s \in Slots : s[1] \in Events /\ s[2] \in Channels /\ s = <<s[1], s[2]>>
  /\ \A e \in Events, c \in Channels :
       <<e, c>> \in Slots /\ <<e, c>>[1] = e /\ <<e, c>>[2] = c
  BY DEF Slots

LEMMA InitInv == Init => BudgetInv
<1> SUFFICES ASSUME Init PROVE BudgetInv
  OBVIOUS
<1>1. TypeOK
  BY BudgetAssumption
     DEF Init, TypeOK, Policy, NoRecord, Never, MaxAttempts
<1>2. SettledEventsAreQuiet /\ VerdictMatchesReceipts /\ OneOpenAnnouncement
  BY DEF Init, SettledEventsAreQuiet, VerdictMatchesReceipts, OneOpenAnnouncement
<1> QED
  BY <1>1, <1>2 DEF BudgetInv

-----------------------------------------------------------------------------
(* prepareTransitions *)

(* One evaluation of a well-formed forecast keeps the store's part of the  *)
(* invariant: what it settles it also silences, and of what it leaves open *)
(* in a period only one announcement concerns the level.                   *)
LEMMA EvaluateInv ==
  ASSUME BudgetInv, NEW f \in Forecast, Evaluate(f)
  PROVE  /\ row' \in Policy /\ cached' \in Policy
         /\ recorded' \in [level : States, period : Periods] \cup {NoRecord}
         /\ event' \in [Events -> EventStatus]
         /\ delivery' \in [Slots -> SlotStatus]
         /\ work' \subseteq Events
         /\ SettledEventsAreQuiet'
         /\ VerdictMatchesReceipts'
         /\ OneOpenAnnouncement'
<1> DEFINE after == EventsAfter(f, Suppression(f))
<1>1. event' = after
  BY DEF Evaluate
<1>2. delivery' = [s \in Slots |->
         IF after[s[1]] \in Suppressed /\ delivery[s] \in Open
         THEN "suppressed" ELSE delivery[s]]
  BY DEF Evaluate
<1>3. \A e \in Events :
        /\ after[e] \in EventStatus
        /\ event[e] \notin {"none", "pending"} => after[e] = event[e]
        /\ event[e] = "pending" => after[e] \in {"pending"} \cup Suppressed
        /\ event[e] = "none" => after[e] \in {"none", "pending"} \cup Suppressed
  BY DEF EventsAfter, BudgetInv, TypeOK
<1>4. event' \in [Events -> EventStatus]
  BY <1>1, <1>3 DEF EventsAfter
<1>5. delivery' \in [Slots -> SlotStatus]
  BY <1>2 DEF BudgetInv, TypeOK
<1>6. row' \in Policy /\ cached' \in Policy
  BY DEF Evaluate, BudgetInv, TypeOK, Policy
<1>7. recorded' \in [level : States, period : Periods] \cup {NoRecord}
  BY DEF Evaluate, Forecast
<1>8. work' \subseteq Events
  BY DEF Evaluate
<1>9. SettledEventsAreQuiet'
  <2> SUFFICES ASSUME NEW s \in Slots, after[s[1]] # "pending"
               PROVE  delivery'[s] \notin Open
    BY <1>1 DEF SettledEventsAreQuiet
  <2>1. CASE event[s[1]] # "pending"
    BY <2>1, <1>2 DEF BudgetInv, SettledEventsAreQuiet
  <2>2. CASE event[s[1]] = "pending"
    BY SlotPairs, <2>2, <1>2, <1>3
  <2> QED BY <2>1, <2>2
<1>10. VerdictMatchesReceipts'
  <2> SUFFICES ASSUME NEW e \in Events, after[e] \in {"failed", "delivered"}
               PROVE  /\ \A c \in Channels : delivery'[<<e, c>>] = delivery[<<e, c>>]
                      /\ after[e] = event[e]
    BY <1>1 DEF BudgetInv, VerdictMatchesReceipts
  <2>1. after[e] = event[e]
    BY <1>3 DEF BudgetInv, TypeOK
  <2>2. \A c \in Channels : delivery'[<<e, c>>] = delivery[<<e, c>>]
    BY SlotPairs, <1>2
  <2> QED BY <2>1, <2>2
<1>11. OneOpenAnnouncement'
  <2> SUFFICES ASSUME NEW d \in Events, NEW e \in Events,
                      after[d] = "pending", after[e] = "pending", d[1] = e[1],
                      d[2] # "period_reset", e[2] # "period_reset"
               PROVE  d = e
    BY <1>1 DEF OneOpenAnnouncement
  <2>1. d[1] = f.period /\ e[1] = f.period
    BY DEF EventsAfter
  <2>2. CASE Active(f) # {}
    <3>1. d[2] \in Active(f) /\ e[2] \in Active(f)
      BY <2>1, <2>2 DEF EventsAfter
    <3>2. d[2] = e[2]
      BY <3>1, ActiveIsSingle
    <3> QED BY <3>2 DEF Events
  <2>3. CASE Active(f) = {}
    <3>1. Raised(f) \subseteq {"period_reset"}
      BY <2>3 DEF Raised
    <3>2. event[d] = "pending" /\ event[e] = "pending"
      BY <3>1 DEF EventsAfter
    <3> QED BY <3>2 DEF BudgetInv, OneOpenAnnouncement
  <2> QED BY <2>2, <2>3
<1> QED BY <1>4, <1>5, <1>6, <1>7, <1>8, <1>9, <1>10, <1>11

LEMMA ForecastsChangedInv ==
  ASSUME BudgetInv, NEW level \in States, ForecastsChanged(level)
  PROVE  BudgetInv'
<1> DEFINE f == [level |-> level, period |-> PeriodAt(now), at |-> now]
<1>1. f \in Forecast
  BY PeriodInRange, BudgetAssumption DEF BudgetInv, TypeOK, Forecast
<1>2. Evaluate(f) /\ forecast' = f
  BY DEF ForecastsChanged
<1>3. TypeOK'
  BY <1>1, <1>2, EvaluateInv
     DEF ForecastsChanged, Evaluate, BudgetInv, TypeOK
<1> QED
  BY <1>1, <1>2, <1>3, EvaluateInv DEF BudgetInv

LEMMA TimerFiresInv ==
  ASSUME BudgetInv, TimerFires
  PROVE  BudgetInv'
<1>1. forecast \in Forecast /\ Evaluate(forecast)
  BY DEF TimerFires, BudgetInv, TypeOK
<1>2. TypeOK'
  BY <1>1, EvaluateInv DEF TimerFires, Evaluate, BudgetInv, TypeOK
<1> QED
  BY <1>1, <1>2, EvaluateInv DEF BudgetInv

-----------------------------------------------------------------------------
(* prepareChannelDeliveries and completeChannelDelivery *)

(* Folding an event's rows into the event keeps every verdict honest: it   *)
(* settles the event only over closed rows, and never touches a settled    *)
(* one.                                                                    *)
LEMMA AggregateInv ==
  ASSUME BudgetInv, NEW e \in Events, NEW d \in [Slots -> SlotStatus],
         NEW otherwise \in {"suppressed", "delivered"},
         \A s \in Slots : s[1] # e => d[s] = delivery[s],
         event[e] # "pending" => \A c \in Channels :
           d[<<e, c>>] = delivery[<<e, c>>],
         otherwise = "delivered" =>
           \E c \in Channels : d[<<e, c>>] \in {"delivered", "failed"} \cup Open,
         event' = Aggregate(e, d, otherwise), delivery' = d
  PROVE  /\ event' \in [Events -> EventStatus]
         /\ SettledEventsAreQuiet'
         /\ VerdictMatchesReceipts'
         /\ OneOpenAnnouncement'
         /\ \A g \in Events : event[g] # "pending" => event'[g] = event[g]
<1>1. event \in [Events -> EventStatus]
  BY DEF BudgetInv, TypeOK
<1>2. event' \in [Events -> EventStatus]
  BY <1>1 DEF Aggregate
<1>3. \A g \in Events : g # e => event'[g] = event[g]
  BY <1>1 DEF Aggregate
<1>4. \A g \in Events : event[g] # "pending" => event'[g] = event[g]
  BY <1>1 DEF Aggregate
<1>5. SettledEventsAreQuiet'
  <2> SUFFICES ASSUME NEW s \in Slots, event'[s[1]] # "pending"
               PROVE  d[s] \notin Open
    BY DEF SettledEventsAreQuiet
  <2>1. CASE event[s[1]] # "pending"
    <3>1. d[s] = delivery[s]
      BY SlotPairs, <2>1
    <3> QED BY <2>1, <3>1 DEF BudgetInv, SettledEventsAreQuiet
  <2>2. CASE event[s[1]] = "pending"
    <3>1. s[1] = e
      BY SlotPairs, <2>2, <1>3
    <3>2. ~ \E c \in Channels : d[<<e, c>>] \in Open
      BY <2>2, <3>1, <1>1 DEF Aggregate
    <3> QED BY SlotPairs, <3>1, <3>2
  <2> QED BY <2>1, <2>2
<1>6. VerdictMatchesReceipts'
  <2> SUFFICES ASSUME NEW g \in Events
               PROVE  /\ event'[g] = "failed" => \E c \in Channels : d[<<g, c>>] = "failed"
                      /\ event'[g] = "delivered" =>
                           /\ \E c \in Channels : d[<<g, c>>] = "delivered"
                           /\ \A c \in Channels : d[<<g, c>>] # "failed"
    BY DEF VerdictMatchesReceipts
  <2>1. CASE event[g] # "pending" \/ g # e
    <3>1. event'[g] = event[g]
      BY <2>1, <1>3, <1>4
    <3>2. \A c \in Channels : d[<<g, c>>] = delivery[<<g, c>>]
      BY SlotPairs, <2>1
    <3>3. /\ event[g] = "failed" => \E c \in Channels : delivery[<<g, c>>] = "failed"
          /\ event[g] = "delivered" =>
               /\ \E c \in Channels : delivery[<<g, c>>] = "delivered"
               /\ \A c \in Channels : delivery[<<g, c>>] # "failed"
      BY DEF BudgetInv, VerdictMatchesReceipts
    <3> QED BY <3>1, <3>2, <3>3, Zenon
  <2>2. CASE event[g] = "pending" /\ g = e
    <3>1. CASE \E c \in Channels : d[<<e, c>>] \in Open
      BY <2>2, <3>1, <1>1 DEF Aggregate
    <3>2. CASE ~ \E c \in Channels : d[<<e, c>>] \in Open
      <4>1. event'[e] = IF \E c \in Channels : d[<<e, c>>] = "failed" THEN "failed"
                        ELSE IF \E c \in Channels : d[<<e, c>>] = "delivered"
                             THEN "delivered" ELSE otherwise
        BY <2>2, <3>2, <1>1 DEF Aggregate
      <4> QED BY <4>1, <2>2, <3>2
    <3> QED BY <3>1, <3>2
  <2> QED BY <2>1, <2>2
<1>7. OneOpenAnnouncement'
  BY <1>1, <1>3, <1>4 DEF BudgetInv, OneOpenAnnouncement
<1> QED BY <1>2, <1>4, <1>5, <1>6, <1>7

LEMMA HandoffInv ==
  ASSUME BudgetInv, NEW e \in Events, Handoff(e)
  PROVE  BudgetInv'
<1> DEFINE d == DeliveryAfter(e)
           claimed == Claimed(e, Snapshot(e))
<1>1. delivery' = d /\ event' = Aggregate(e, d, "suppressed") /\ due' = claimed
  BY DEF Handoff
<1>2. d \in [Slots -> SlotStatus]
  BY DEF DeliveryAfter, Snapshot, BudgetInv, TypeOK
<1>3. \A s \in Slots : s[1] # e => d[s] = delivery[s]
  BY DEF DeliveryAfter, Snapshot
<1>4. event[e] # "pending" =>
        \A c \in Channels : d[<<e, c>>] = delivery[<<e, c>>]
  <2> SUFFICES ASSUME event[e] # "pending", NEW c \in Channels
               PROVE  d[<<e, c>>] = delivery[<<e, c>>]
    OBVIOUS
  <2>1. Stale(e)
    BY DEF Stale
  <2>2. delivery[<<e, c>>] \notin Open
    BY SlotPairs DEF BudgetInv, SettledEventsAreQuiet
  <2> QED BY SlotPairs, <2>1, <2>2 DEF DeliveryAfter, Snapshot
<1>5. /\ event' \in [Events -> EventStatus]
      /\ SettledEventsAreQuiet' /\ VerdictMatchesReceipts' /\ OneOpenAnnouncement'
  BY <1>1, <1>2, <1>3, <1>4, AggregateInv
<1>6. attempts' \in [Slots -> 0 .. MaxAttempts]
  <2>1. attempts \in [Slots -> 0 .. MaxAttempts]
    BY DEF BudgetInv, TypeOK
  <2>2. \A s \in claimed : attempts[s] < MaxAttempts
    BY DEF Claimed
  <2> QED BY <2>1, <2>2 DEF Handoff, MaxAttempts
<1>7. nextAt' \in [Slots -> Nat]
  <2>1. \A s \in Slots : Lease(s[2]) \in Nat
    BY SlotPairs, BudgetAssumption DEF Lease, Max2, BudgetInv, TypeOK
  <2> QED BY <2>1 DEF Handoff, BudgetInv, TypeOK
<1>8. claimed \subseteq Slots
  BY DEF Claimed
<1>9. TypeOK'
  BY <1>1, <1>2, <1>5, <1>6, <1>7, <1>8 DEF Handoff, BudgetInv, TypeOK, widget
<1> QED BY <1>5, <1>9 DEF BudgetInv

LEMMA CompleteInv ==
  ASSUME BudgetInv, NEW s \in Slots, NEW accepted \in BOOLEAN,
         NEW retryable \in BOOLEAN, NEW delay \in Nat,
         Complete(s, accepted, retryable, delay)
  PROVE  /\ recorded' = recorded
         /\ event' \in [Events -> EventStatus]
         /\ delivery' \in [Slots -> SlotStatus]
         /\ attempts' = attempts
         /\ nextAt' \in [Slots -> Nat]
         /\ lastAt' \in [Channels -> 0 .. MaxTime \cup {Never}]
         /\ SettledEventsAreQuiet' /\ VerdictMatchesReceipts' /\ OneOpenAnnouncement'
<1>1. CASE delivery[s] # "in_flight"
  <2>1. /\ recorded' = recorded /\ event' = event /\ delivery' = delivery
        /\ attempts' = attempts /\ nextAt' = nextAt /\ lastAt' = lastAt
    BY <1>1 DEF Complete, store
  <2> QED
    BY <2>1 DEF BudgetInv, TypeOK, SettledEventsAreQuiet,
                VerdictMatchesReceipts, OneOpenAnnouncement
<1>2. CASE delivery[s] = "in_flight"
  <2> DEFINE d == [delivery EXCEPT ![s] =
                     IF accepted THEN "delivered"
                     ELSE IF retryable /\ attempts[s] < MaxAttempts THEN "pending"
                     ELSE "failed"]
  <2>1. delivery' = d /\ event' = Aggregate(s[1], d, "delivered")
        /\ recorded' = recorded /\ attempts' = attempts
    BY <1>2 DEF Complete
  <2>2. d \in [Slots -> SlotStatus] /\ d[s] \in {"delivered", "failed"} \cup Open
    BY DEF BudgetInv, TypeOK
  <2>3. \A t \in Slots : t[1] # s[1] => d[t] = delivery[t]
    BY DEF BudgetInv, TypeOK
  <2>4. event[s[1]] = "pending"
    BY <1>2 DEF BudgetInv, SettledEventsAreQuiet
  <2>5. s[1] \in Events /\ s[2] \in Channels /\ s = <<s[1], s[2]>>
    BY SlotPairs
  <2>6. \E c \in Channels : d[<<s[1], c>>] \in {"delivered", "failed"} \cup Open
    BY <2>2, <2>5
  <2> HIDE DEF d
  <2>7. /\ event' \in [Events -> EventStatus]
        /\ SettledEventsAreQuiet' /\ VerdictMatchesReceipts' /\ OneOpenAnnouncement'
    BY <2>1, <2>2, <2>3, <2>4, <2>5, <2>6, AggregateInv
  <2>8. nextAt' \in [Slots -> Nat]
    <3>1. now + Max2(Max2(1, Cooldown[s[2]]), delay) \in Nat
      BY SlotPairs, BudgetAssumption DEF Max2, BudgetInv, TypeOK
    <3> QED BY <3>1, <1>2 DEF Complete, BudgetInv, TypeOK
  <2>9. lastAt' \in [Channels -> 0 .. MaxTime \cup {Never}]
    BY <1>2 DEF Complete, BudgetInv, TypeOK
  <2> QED BY <2>1, <2>2, <2>7, <2>8, <2>9
<1> QED BY <1>1, <1>2

-----------------------------------------------------------------------------
(* The remaining actions and the theorem *)

LEMMA NextInv == BudgetInv /\ [Next]_vars => BudgetInv'
<1> SUFFICES ASSUME BudgetInv, [Next]_vars PROVE BudgetInv'
  OBVIOUS
<1>1. ASSUME NEW level \in States, ForecastsChanged(level) PROVE BudgetInv'
  BY <1>1, ForecastsChangedInv
<1>2. CASE TimerFires
  BY <1>2, TimerFiresInv
<1>3. ASSUME NEW e \in work, Handoff(e) PROVE BudgetInv'
  BY <1>3, HandoffInv DEF BudgetInv, TypeOK
<1>4. ASSUME NEW s \in due, NotifyDesktop(s) PROVE BudgetInv'
  <2>1. s \in Slots /\ Complete(s, TRUE, FALSE, 0)
    BY <1>4 DEF NotifyDesktop, BudgetInv, TypeOK
  <2>2. TypeOK'
    BY <1>4, <2>1, CompleteInv DEF NotifyDesktop, BudgetInv, TypeOK, widget
  <2> QED BY <2>1, <2>2, CompleteInv DEF BudgetInv
<1>5. ASSUME NEW s \in due, RejectWebhook(s) PROVE BudgetInv'
  <2>1. s \in Slots /\ Complete(s, FALSE, FALSE, 0)
    BY <1>5 DEF RejectWebhook, BudgetInv, TypeOK
  <2>2. TypeOK'
    BY <1>5, <2>1, CompleteInv DEF RejectWebhook, BudgetInv, TypeOK, widget
  <2> QED BY <2>1, <2>2, CompleteInv DEF BudgetInv
<1>6. ASSUME NEW s \in due, PostWebhook(s) PROVE BudgetInv'
  <2>1. UNCHANGED store
    BY <1>6 DEF PostWebhook
  <2>2. TypeOK'
    BY <1>6, <2>1 DEF PostWebhook, BudgetInv, TypeOK, widget, store
  <2> QED
    BY <2>1, <2>2 DEF BudgetInv, store, SettledEventsAreQuiet,
                      VerdictMatchesReceipts, OneOpenAnnouncement
<1>7. ASSUME NEW p \in posts, SomeReply(p) PROVE BudgetInv'
  <2>1. PICK accepted \in BOOLEAN, retryable \in BOOLEAN, delay \in Nat :
          Reply(p, accepted, retryable, delay)
    BY <1>7, BudgetAssumption DEF SomeReply
  <2>2. p.slot \in Slots
    BY <1>7 DEF BudgetInv, TypeOK
  <2>3. CASE p.id = epoch
    <3>1. Complete(p.slot, accepted, retryable, delay)
      BY <2>1, <2>3 DEF Reply
    <3>2. TypeOK'
      BY <2>1, <2>2, <3>1, CompleteInv DEF Reply, BudgetInv, TypeOK, widget
    <3> QED BY <2>2, <3>1, <3>2, CompleteInv DEF BudgetInv
  <2>4. CASE p.id # epoch
    <3>1. UNCHANGED store
      BY <2>1, <2>4 DEF Reply
    <3>2. TypeOK'
      BY <2>1, <2>4, <3>1 DEF Reply, BudgetInv, TypeOK, widget, store
    <3> QED
      BY <3>1, <3>2 DEF BudgetInv, store, SettledEventsAreQuiet,
                        VerdictMatchesReceipts, OneOpenAnnouncement
  <2> QED BY <2>3, <2>4
<1>8. CASE Tick
  <2>1. TypeOK'
    BY <1>8, BudgetAssumption DEF Tick, BudgetInv, TypeOK, widget, store
  <2> QED
    BY <1>8, <2>1 DEF Tick, BudgetInv, store, SettledEventsAreQuiet,
                      VerdictMatchesReceipts, OneOpenAnnouncement
<1>9. CASE Configure
  <2>1. TypeOK'
    BY <1>9 DEF Configure, BudgetInv, TypeOK, store
  <2> QED
    BY <1>9, <2>1 DEF Configure, BudgetInv, store, SettledEventsAreQuiet,
                      VerdictMatchesReceipts, OneOpenAnnouncement
<1>10. CASE Apply
  <2>1. PeriodEnd(PeriodAt(now)) \in Nat
    <3>1. PeriodAt(now) \in Nat
      BY PeriodInRange DEF BudgetInv, TypeOK, Periods
    <3> QED BY <3>1, BudgetAssumption, SMT DEF PeriodEnd
  <2>2. row' \in Policy
    BY <1>10, <2>1 DEF Apply, BudgetInv, TypeOK, Policy
  <2>3. TypeOK'
    BY <1>10, <2>2, BudgetAssumption
       DEF Apply, BudgetInv, TypeOK, widget, NoRecord, MaxAttempts, Never
  <2> QED
    BY <1>10, <2>3, SlotPairs
       DEF Apply, BudgetInv, SettledEventsAreQuiet, VerdictMatchesReceipts,
           OneOpenAnnouncement
<1>11. CASE Crash
  <2>1. TypeOK'
    BY <1>11, BudgetAssumption DEF Crash, BudgetInv, TypeOK, store
  <2> QED
    BY <1>11, <2>1 DEF Crash, BudgetInv, store, SettledEventsAreQuiet,
                       VerdictMatchesReceipts, OneOpenAnnouncement
<1>12. CASE UNCHANGED vars
  BY <1>12 DEF vars, store, widget, BudgetInv, TypeOK, SettledEventsAreQuiet,
               VerdictMatchesReceipts, OneOpenAnnouncement
<1> QED
  BY <1>1, <1>2, <1>3, <1>4, <1>5, <1>6, <1>7, <1>8, <1>9, <1>10, <1>11, <1>12
     DEF Next, Controller

(* Whatever crashes, late or lost replies and settings changes occur, the  *)
(* store stays well typed (three attempts per channel at most) ...         *)
THEOREM TypeCorrect == Spec => []TypeOK
  BY InitInv, NextInv, PTL DEF Spec, BudgetInv

(* ... no settled event has a channel waiting or in flight ...             *)
THEOREM SettledQuiet == Spec => []SettledEventsAreQuiet
  BY InitInv, NextInv, PTL DEF Spec, BudgetInv

(* ... every verdict is backed by the channels' receipts ...               *)
THEOREM VerdictSound == Spec => []VerdictMatchesReceipts
  BY InitInv, NextInv, PTL DEF Spec, BudgetInv

(* ... and no two announcements about the level are open side by side.     *)
THEOREM OneAnnouncement == Spec => []OneOpenAnnouncement
  BY InitInv, NextInv, PTL DEF Spec, BudgetInv

-----------------------------------------------------------------------------
(* Settled events and receipts are final *)

LEMMA EvaluateSettled ==
  ASSUME BudgetInv, NEW f \in Forecast, Evaluate(f)
  PROVE  SettledStep
  BY DEF Evaluate, EventsAfter, SettledStep

LEMMA CompleteSettled ==
  ASSUME BudgetInv, NEW s \in Slots, NEW accepted, NEW retryable, NEW delay,
         Complete(s, accepted, retryable, delay)
  PROVE  SettledStep
<1>1. CASE delivery[s] # "in_flight"
  BY <1>1 DEF Complete, store, SettledStep
<1>2. CASE delivery[s] = "in_flight"
  <2>1. \A t \in Slots : t # s => delivery'[t] = delivery[t]
    BY <1>2 DEF Complete, BudgetInv, TypeOK
  <2>2. \A g \in Events : event[g] # "pending" => event'[g] = event[g]
    BY <1>2 DEF Complete, Aggregate, BudgetInv, TypeOK
  <2> QED BY <1>2, <2>1, <2>2 DEF SettledStep
<1> QED BY <1>1, <1>2

LEMMA HandoffSettled ==
  ASSUME BudgetInv, NEW e \in Events, Handoff(e)
  PROVE  SettledStep
<1>1. \A g \in Events : event[g] # "pending" => event'[g] = event[g]
  BY DEF Handoff, Aggregate, BudgetInv, TypeOK
<1>2. ASSUME NEW s \in Slots, delivery[s] \notin {"none"} \cup Open
      PROVE  delivery'[s] = delivery[s]
  <2>1. Snapshot(e)[s] = delivery[s]
    BY <1>2, SlotPairs DEF Snapshot
  <2> QED BY <1>2, <2>1 DEF Handoff, DeliveryAfter
<1> QED BY <1>1, <1>2 DEF SettledStep

LEMMA NextSettled == BudgetInv /\ [Next]_vars => [SettledStep]_vars
<1> SUFFICES ASSUME BudgetInv, Next PROVE SettledStep
  OBVIOUS
<1>1. ASSUME NEW level \in States, ForecastsChanged(level) PROVE SettledStep
  <2> DEFINE f == [level |-> level, period |-> PeriodAt(now), at |-> now]
  <2>1. f \in Forecast
    BY PeriodInRange, BudgetAssumption DEF BudgetInv, TypeOK, Forecast
  <2>2. Evaluate(f)
    BY <1>1 DEF ForecastsChanged
  <2> QED BY <2>1, <2>2, EvaluateSettled
<1>2. CASE TimerFires
  BY <1>2, EvaluateSettled DEF TimerFires, BudgetInv, TypeOK
<1>3. ASSUME NEW e \in work, Handoff(e) PROVE SettledStep
  BY <1>3, HandoffSettled DEF BudgetInv, TypeOK
<1>4. ASSUME NEW s \in due, NotifyDesktop(s) \/ RejectWebhook(s) PROVE SettledStep
  <2>1. s \in Slots
    BY DEF BudgetInv, TypeOK
  <2> QED BY <1>4, <2>1, CompleteSettled DEF NotifyDesktop, RejectWebhook
<1>5. ASSUME NEW p \in posts, SomeReply(p) PROVE SettledStep
  <2>1. PICK accepted \in BOOLEAN, retryable \in BOOLEAN, delay \in Nat :
          Reply(p, accepted, retryable, delay)
    BY <1>5, BudgetAssumption DEF SomeReply
  <2>2. p.slot \in Slots
    BY <1>5 DEF BudgetInv, TypeOK
  <2>3. CASE p.id = epoch
    BY <2>1, <2>2, <2>3, CompleteSettled DEF Reply
  <2>4. CASE p.id # epoch
    BY <2>1, <2>4 DEF Reply, store, SettledStep
  <2> QED BY <2>3, <2>4
<1>6. ASSUME NEW s \in due, PostWebhook(s) PROVE SettledStep
  BY <1>6 DEF PostWebhook, store, SettledStep
<1>7. CASE Tick \/ Configure \/ Crash
  BY <1>7 DEF Tick, Configure, Crash, store, SettledStep
<1>8. CASE Apply
  <2>1. epoch' # epoch
    BY <1>8 DEF Apply, BudgetInv, TypeOK
  <2> QED BY <2>1 DEF SettledStep
<1> QED
  BY <1>1, <1>2, <1>3, <1>4, <1>5, <1>6, <1>7, <1>8 DEF Next, Controller

(* A settled event or receipt is final until the policies are replaced.    *)
THEOREM SettledFinal == Spec => SettledStaysSettled
  BY InitInv, NextInv, NextSettled, PTL DEF Spec, SettledStaysSettled

-----------------------------------------------------------------------------
(* What was accepted is not tried again, where requests end before their   *)
(* lease does                                                              *)

Settled == {"delivered", "failed", "suppressed"}
Leased(s) == delivery[s] = "in_flight" /\ nextAt[s] > now

(* A claimed row stays leased until its channel answers, unless its event  *)
(* is suppressed meanwhile.  A reply does not name its attempt, so each    *)
(* row may have one request only: a second could find the row waiting      *)
(* again after the first failed, and its acceptance would be lost.         *)
AttemptInv ==
  /\ \A s \in due : Leased(s)
  /\ \A p \in posts : p.id = epoch =>
       /\ Leased(p.slot) \/ delivery[p.slot] \in Settled
       /\ p.slot \notin due
  /\ \A p, q \in posts : p.id = epoch /\ q.id = epoch /\ p.slot = q.slot => p = q
  /\ \A p \in posts : p.id <= epoch
  /\ \A s \in taken : delivery[s] \in Settled

(* An evaluation closes rows and opens none.                               *)
LEMMA EvaluateAttempts ==
  ASSUME BudgetInv, AttemptInv, NEW f \in Forecast, Evaluate(f), due = {},
         UNCHANGED <<now, epoch, due, posts, taken>>
  PROVE  AttemptInv' /\ attempts' = attempts
<1>1. attempts' = attempts /\ nextAt' = nextAt
  BY DEF Evaluate
<1>2. \A s \in Slots : delivery'[s] = delivery[s] \/ delivery'[s] = "suppressed"
  BY DEF Evaluate
<1>3. \A p \in posts : p.slot \in Slots
  BY DEF BudgetInv, TypeOK
<1>4. taken \subseteq Slots
  BY DEF BudgetInv, TypeOK
<1> QED BY <1>1, <1>2, <1>3, <1>4 DEF AttemptInv, Leased, Settled

(* A hand-off claims rows whose lease is over, so none that is leased, and *)
(* opens no row that was closed.                                           *)
LEMMA HandoffAttempts ==
  ASSUME BudgetInv, AttemptInv, NEW e \in Events, Handoff(e)
  PROVE  AttemptInv' /\ \A s \in taken : attempts'[s] <= attempts[s]
<1> DEFINE claimed == Claimed(e, Snapshot(e))
<1>1. /\ UNCHANGED <<now, epoch, posts, taken>> /\ due' = claimed /\ due = {}
      /\ delivery' = DeliveryAfter(e)
      /\ attempts' = [s \in Slots |-> IF s \in claimed THEN attempts[s] + 1 ELSE attempts[s]]
      /\ nextAt' = [s \in Slots |-> IF s \in claimed THEN Lease(s[2]) ELSE nextAt[s]]
  BY DEF Handoff
<1>2. ASSUME NEW s \in Slots, delivery[s] \in Settled
      PROVE  s \notin claimed /\ delivery'[s] = delivery[s]
  <2>1. Snapshot(e)[s] = delivery[s]
    BY <1>2, SlotPairs DEF Snapshot, Settled
  <2> QED BY <1>1, <1>2, <2>1 DEF DeliveryAfter, Claimed, Settled
<1>3. ASSUME NEW s \in Slots, Leased(s)
      PROVE  /\ s \notin claimed
             /\ delivery'[s] = delivery[s] \/ delivery'[s] = "suppressed"
  <2>1. Snapshot(e)[s] = delivery[s]
    BY <1>3, SlotPairs DEF Snapshot, Leased
  <2>2. ~Due(s)
    BY <1>3 DEF Due, Leased, BudgetInv, TypeOK
  <2> QED BY <1>1, <2>1, <2>2 DEF DeliveryAfter, Claimed
<1>4. ASSUME NEW s \in claimed PROVE Leased(s)'
  <2>1. s \in Slots /\ s[2] \in Channels
    BY SlotPairs DEF Claimed
  <2>2. delivery'[s] = "in_flight"
    BY <1>1, <2>1 DEF Claimed, DeliveryAfter, Due, MaxAttempts, BudgetInv, TypeOK
  <2>3. nextAt'[s] > now
    BY <1>1, <2>1, BudgetAssumption DEF Lease, Max2, BudgetInv, TypeOK
  <2> QED BY <1>1, <2>2, <2>3 DEF Leased
<1>5. ASSUME NEW s \in Slots, Leased(s) \/ delivery[s] \in Settled
      PROVE  (Leased(s) \/ delivery[s] \in Settled)' /\ s \notin claimed
  BY <1>1, <1>2, <1>3, <1>5 DEF Leased, Settled
<1>6. taken \subseteq Slots /\ \A p \in posts : p.slot \in Slots
  BY DEF BudgetInv, TypeOK
<1>7. \A s \in taken : attempts'[s] <= attempts[s]
  <2>1. attempts \in [Slots -> Nat]
    BY DEF BudgetInv, TypeOK, MaxAttempts
  <2> QED BY <1>1, <1>2, <1>6, <2>1 DEF AttemptInv
<1> HIDE DEF claimed
<1>8. AttemptInv'
  BY <1>1, <1>2, <1>4, <1>5, <1>6 DEF AttemptInv
<1> QED BY <1>7, <1>8

(* An answer to a leased row settles it or sets it back to waiting; to a   *)
(* settled row it does nothing.                                            *)
LEMMA CompleteAttempts ==
  ASSUME BudgetInv, NEW s \in Slots, NEW accepted \in BOOLEAN,
         NEW retryable \in BOOLEAN, NEW delay \in Nat,
         Complete(s, accepted, retryable, delay),
         Leased(s) \/ delivery[s] \in Settled
  PROVE  /\ attempts' = attempts
         /\ \A t \in Slots : t # s => delivery'[t] = delivery[t] /\ nextAt'[t] = nextAt[t]
         /\ delivery[s] \in Settled => delivery'[s] = delivery[s]
         /\ accepted => delivery'[s] \in Settled
<1>1. CASE delivery[s] # "in_flight"
  BY <1>1 DEF Complete, store, Leased
<1>2. CASE delivery[s] = "in_flight"
  BY <1>2 DEF Complete, Settled, BudgetInv, TypeOK
<1> QED BY <1>1, <1>2

LEMMA AttemptsInit == Init => AttemptInv
  BY DEF Init, AttemptInv

LEMMA AttemptsNext ==
  ASSUME ~LateReplies, BudgetInv, AttemptInv, [Next]_vars
  PROVE  AttemptInv' /\ \A s \in taken : attempts'[s] <= attempts[s]
<1> DEFINE Kept == AttemptInv' /\ \A s \in taken : attempts'[s] <= attempts[s]
<1> SUFFICES Kept
  OBVIOUS
<1>0. /\ \A s \in taken \cup due : s \in Slots
      /\ \A p \in posts : p.slot \in Slots /\ p.id \in 0 .. MaxApplies
      /\ epoch \in Nat /\ epoch <= epoch
      /\ attempts \in [Slots -> Nat]
      /\ \A s \in Slots : attempts[s] <= attempts[s]
  BY DEF BudgetInv, TypeOK, MaxAttempts
<1>1. ASSUME NEW level \in States, ForecastsChanged(level) PROVE Kept
  <2> DEFINE f == [level |-> level, period |-> PeriodAt(now), at |-> now]
  <2>1. f \in Forecast
    BY PeriodInRange, BudgetAssumption DEF BudgetInv, TypeOK, Forecast
  <2>2. Evaluate(f) /\ due = {} /\ UNCHANGED <<now, epoch, due, posts, taken>>
    BY <1>1 DEF ForecastsChanged, Idle
  <2> HIDE DEF f
  <2> QED BY <1>0, <2>1, <2>2, EvaluateAttempts
<1>2. CASE TimerFires
  <2>1. forecast \in Forecast
    BY <1>2 DEF TimerFires, BudgetInv, TypeOK
  <2>2. Evaluate(forecast) /\ due = {} /\ UNCHANGED <<now, epoch, due, posts, taken>>
    BY <1>2 DEF TimerFires, Idle
  <2> QED BY <1>0, <2>1, <2>2, EvaluateAttempts
<1>3. ASSUME NEW e \in work, Handoff(e) PROVE Kept
  BY <1>3, HandoffAttempts DEF BudgetInv, TypeOK
<1>4. ASSUME NEW s \in due, NotifyDesktop(s) PROVE Kept
  <2>1. Leased(s) /\ s \in Slots
    BY <1>0 DEF AttemptInv
  <2>2. /\ attempts' = attempts
        /\ \A t \in Slots : t # s => delivery'[t] = delivery[t] /\ nextAt'[t] = nextAt[t]
        /\ delivery'[s] \in Settled
    BY <1>4, <2>1, CompleteAttempts DEF NotifyDesktop
  <2>3. UNCHANGED <<now, epoch, posts>> /\ due' = due \ {s} /\ taken' = taken \cup {s}
    BY <1>4 DEF NotifyDesktop
  <2> QED BY <1>0, <2>1, <2>2, <2>3 DEF AttemptInv, Leased
<1>5. ASSUME NEW s \in due, RejectWebhook(s) PROVE Kept
  <2>1. Leased(s) /\ s \in Slots
    BY <1>0 DEF AttemptInv
  <2>2. /\ attempts' = attempts
        /\ \A t \in Slots : t # s => delivery'[t] = delivery[t] /\ nextAt'[t] = nextAt[t]
    BY <1>5, <2>1, CompleteAttempts DEF RejectWebhook
  <2>3. UNCHANGED <<now, epoch, posts, taken>> /\ due' = due \ {s}
    BY <1>5 DEF RejectWebhook
  <2>4. s \notin taken /\ \A p \in posts : p.id = epoch => p.slot # s
    BY <2>1 DEF AttemptInv, Leased, Settled
  <2> QED BY <1>0, <2>1, <2>2, <2>3, <2>4 DEF AttemptInv, Leased
<1>6. ASSUME NEW s \in due, PostWebhook(s) PROVE Kept
  <2>1. Leased(s) /\ s \in Slots /\ \A p \in posts : p.id = epoch => p.slot # s
    BY <1>0 DEF AttemptInv
  <2>2. /\ UNCHANGED <<now, epoch, delivery, nextAt, attempts, taken>> /\ due' = due \ {s}
        /\ posts' = posts \cup {[id |-> epoch, slot |-> s, try |-> attempts[s]]}
    BY <1>6 DEF PostWebhook, store
  <2> QED BY <1>0, <2>1, <2>2 DEF AttemptInv, Leased
<1>7. ASSUME NEW p \in posts, SomeReply(p) PROVE Kept
  <2>1. PICK accepted \in BOOLEAN, retryable \in BOOLEAN, delay \in Nat :
          Reply(p, accepted, retryable, delay)
    BY <1>7, BudgetAssumption DEF SomeReply
  <2>2. UNCHANGED <<now, epoch, due>> /\ posts' = posts \ {p} /\ due = {}
    BY <2>1 DEF Reply, Idle
  <2>3. CASE p.id # epoch
    <3>1. UNCHANGED <<delivery, nextAt, attempts, taken>>
      BY <2>1, <2>3 DEF Reply, store
    <3> QED BY <1>0, <2>2, <3>1 DEF AttemptInv, Leased
  <2>4. CASE p.id = epoch
    <3>1. /\ p.slot \in Slots
          /\ Leased(p.slot) \/ delivery[p.slot] \in Settled
          /\ Complete(p.slot, accepted, retryable, delay)
          /\ taken' = IF accepted THEN taken \cup {p.slot} ELSE taken
      BY <1>0, <2>1, <2>4 DEF AttemptInv, Reply
    <3>2. /\ attempts' = attempts
          /\ \A t \in Slots : t # p.slot => delivery'[t] = delivery[t] /\ nextAt'[t] = nextAt[t]
          /\ delivery[p.slot] \in Settled => delivery'[p.slot] = delivery[p.slot]
          /\ accepted => delivery'[p.slot] \in Settled
      BY <3>1, CompleteAttempts
    <3>3. \A q \in posts' : q.id = epoch => q.slot # p.slot
      BY <2>2, <2>4 DEF AttemptInv
    <3>4. \A t \in taken' : delivery'[t] \in Settled
      BY <1>0, <3>1, <3>2 DEF AttemptInv
    <3> QED BY <1>0, <2>2, <3>2, <3>3, <3>4 DEF AttemptInv, Leased
  <2> QED BY <2>3, <2>4
<1>8. CASE Tick
  <2>1. posts = {} /\ due = {} /\ UNCHANGED <<delivery, attempts, epoch, due, posts, taken>>
    BY <1>8 DEF Tick, Idle, store
  <2> QED BY <1>0, <2>1 DEF AttemptInv
<1>9. CASE Configure
  BY <1>0, <1>9 DEF Configure, store, AttemptInv, Leased
<1>10. CASE Apply
  <2>1. /\ taken' = {} /\ due = {} /\ UNCHANGED <<due, posts>> /\ epoch' = epoch + 1
        /\ attempts' = [s \in Slots |-> 0]
    BY <1>10 DEF Apply, Idle
  <2>2. \A p \in posts : p.id # epoch' /\ p.id <= epoch'
    <3>1. \A p \in posts : p.id <= epoch
      BY DEF AttemptInv
    <3> QED BY <1>0, <2>1, <3>1 DEF BudgetInv, TypeOK
  <2>3. \A s \in Slots : attempts'[s] <= attempts[s]
    BY <1>0, <2>1
  <2> QED BY <1>0, <2>1, <2>2, <2>3 DEF AttemptInv
<1>11. CASE Crash
  <2>1. /\ due' = {} /\ posts' = {}
        /\ UNCHANGED <<now, delivery, nextAt, attempts, epoch, taken>>
    BY <1>11 DEF Crash, store
  <2> QED BY <1>0, <2>1 DEF AttemptInv
<1>12. CASE UNCHANGED vars
  BY <1>0, <1>12 DEF vars, store, AttemptInv, Leased
<1> QED
  BY <1>1, <1>2, <1>3, <1>4, <1>5, <1>6, <1>7, <1>8, <1>9, <1>10, <1>11, <1>12
     DEF Next, Controller

(* A channel whose acceptance was seen is not tried again, whatever        *)
(* crashes, is retried, suppressed or replaced, as long as no reply        *)
(* outlives the minute of its lease.                                       *)
THEOREM AcceptedOnce == ~LateReplies /\ Spec => OnlyUnacknowledgedRetry
<1>1. ~LateReplies /\ BudgetInv /\ AttemptInv /\ [Next]_vars
        => AttemptInv' /\ [\A s \in taken : attempts'[s] <= attempts[s]]_vars
  BY AttemptsNext
<1>2. CASE LateReplies
  BY <1>2
<1>3. CASE ~LateReplies
  <2>1. BudgetInv /\ AttemptInv /\ [Next]_vars
          => AttemptInv' /\ [\A s \in taken : attempts'[s] <= attempts[s]]_vars
    BY <1>1, <1>3
  <2>2. Spec => OnlyUnacknowledgedRetry
    BY <2>1, InitInv, NextInv, AttemptsInit, PTL DEF Spec, OnlyUnacknowledgedRetry
  <2> QED BY <2>2
<1> QED BY <1>2, <1>3

-----------------------------------------------------------------------------
(* The snooze, until the dialog replaces the policies                      *)

(* Until then the widget's copy is the stored policy, and what an          *)
(* evaluation leaves to be announced was not snoozed: an expired snooze is *)
(* cleared in the same transaction.                                        *)
SnoozeInv ==
  epoch = 0 => /\ cached = row
               /\ work # {} => row.snooze = 0

LEMMA SnoozeInit == Init => SnoozeInv
  BY DEF Init, SnoozeInv

LEMMA EvaluateSnooze ==
  ASSUME BudgetInv, SnoozeInv, NEW f \in Forecast, Evaluate(f), epoch' = epoch
  PROVE  SnoozeInv' /\ attempts' = attempts
<1>1. ASSUME epoch = 0 PROVE cached' = row' /\ (work' # {} => row'.snooze = 0)
  <2>1. row \in Policy /\ cached = row
    BY <1>1 DEF SnoozeInv, BudgetInv, TypeOK
  <2>2. CASE cached.snooze # 0 /\ cached.snooze <= f.at
    BY <2>1, <2>2 DEF Evaluate, Policy
  <2>3. CASE cached.snooze = 0
    BY <2>1, <2>3 DEF Evaluate
  <2>4. CASE cached.snooze > f.at
    <3>1. Suppression(f) = "snoozed"
      BY <2>4 DEF Suppression
    <3>2. work' = {}
      BY <3>1 DEF Evaluate
    <3>3. cached' = row'
      BY <2>1 DEF Evaluate
    <3> QED BY <3>2, <3>3
  <2> QED BY <2>1, <2>2, <2>3, <2>4 DEF Policy, Forecast
<1> QED BY <1>1 DEF SnoozeInv, Evaluate

LEMMA SnoozeNext ==
  ASSUME BudgetInv, SnoozeInv, [Next]_vars
  PROVE  SnoozeInv' /\ (epoch' = 0 => SnoozedStep)
<1> DEFINE Kept == SnoozeInv' /\ (epoch' = 0 => SnoozedStep)
<1> SUFFICES Kept
  OBVIOUS
<1>0. /\ attempts \in [Slots -> Nat] /\ now \in Nat
      /\ attempts' = attempts => SnoozedStep
  BY BudgetAssumption DEF BudgetInv, TypeOK, MaxAttempts, SnoozedStep
<1>1. ASSUME NEW level \in States, ForecastsChanged(level) PROVE Kept
  <2> DEFINE f == [level |-> level, period |-> PeriodAt(now), at |-> now]
  <2>1. f \in Forecast
    BY PeriodInRange, BudgetAssumption DEF BudgetInv, TypeOK, Forecast
  <2>2. Evaluate(f) /\ epoch' = epoch
    BY <1>1 DEF ForecastsChanged
  <2> HIDE DEF f
  <2> QED BY <1>0, <2>1, <2>2, EvaluateSnooze
<1>2. CASE TimerFires
  <2>1. forecast \in Forecast /\ Evaluate(forecast) /\ epoch' = epoch
    BY <1>2 DEF TimerFires, BudgetInv, TypeOK
  <2> QED BY <1>0, <2>1, EvaluateSnooze
<1>3. ASSUME NEW e \in work, Handoff(e) PROVE Kept
  <2>1. UNCHANGED <<row, epoch, cached>> /\ work' \subseteq work
    BY <1>3 DEF Handoff, widget
  <2>2. epoch = 0 => row.snooze <= now
    BY <1>0, <1>3 DEF SnoozeInv
  <2> QED BY <2>1, <2>2 DEF SnoozeInv, SnoozedStep
<1>4. ASSUME NEW s \in due, NotifyDesktop(s) \/ RejectWebhook(s) PROVE Kept
  <2>1. UNCHANGED <<row, epoch, cached, work, attempts>>
    BY <1>4 DEF NotifyDesktop, RejectWebhook, Complete, widget, store
  <2> QED BY <1>0, <2>1 DEF SnoozeInv
<1>5. ASSUME NEW p \in posts, SomeReply(p) PROVE Kept
  <2>1. UNCHANGED <<row, epoch, cached, work, attempts>>
    BY <1>5 DEF SomeReply, Reply, Complete, widget, store
  <2> QED BY <1>0, <2>1 DEF SnoozeInv
<1>6. CASE \/ \E s \in due : PostWebhook(s)
           \/ Tick \/ Configure \/ UNCHANGED vars
  <2>1. UNCHANGED <<row, epoch, cached, work, attempts>>
    BY <1>6 DEF PostWebhook, Tick, Configure, vars, widget, store
  <2> QED BY <1>0, <2>1 DEF SnoozeInv
<1>7. CASE Apply
  <2>1. epoch' # 0
    BY <1>7 DEF Apply, BudgetInv, TypeOK
  <2> QED BY <2>1 DEF SnoozeInv
<1>8. CASE Crash
  <2>1. UNCHANGED <<row, epoch, attempts>> /\ cached' = row /\ work' = {}
    BY <1>8 DEF Crash, store
  <2> QED BY <1>0, <2>1 DEF SnoozeInv
<1> QED
  BY <1>1, <1>2, <1>3, <1>4, <1>5, <1>6, <1>7, <1>8 DEF Next, Controller

(* A snooze holds until its end or until the dialog replaces the policies, *)
(* whatever crashes, is retried or is switched off and on.                 *)
THEOREM SnoozeHolds == Spec => SnoozeRespectedUnedited
<1>1. BudgetInv /\ SnoozeInv /\ [Next]_vars
        => SnoozeInv' /\ [epoch' = 0 => SnoozedStep]_vars
  BY SnoozeNext
<1> QED
  BY <1>1, InitInv, NextInv, SnoozeInit, PTL DEF Spec, SnoozeRespectedUnedited
=============================================================================
