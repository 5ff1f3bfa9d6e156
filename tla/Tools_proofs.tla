----------------------------- MODULE Tools_proofs -----------------------------
(***************************************************************************)
(* What is proved of Tools, for any number of syncs, tools, logins,        *)
(* moments, endpoints and months.                                          *)
(*                                                                         *)
(* Syncs of the tools: what is live depends on the generation alone; the   *)
(* requests of the current one are none, or one while a sync is shown.     *)
(* That survives a cancellation because no request is of a generation yet  *)
(* to come.  The timer of a ready source runs because a deadline that has  *)
(* passed is never computed again, and a refusal is forgotten only with    *)
(* the login that was refused.                                             *)
(*                                                                         *)
(* The schedule of a provider: its timer never runs out before its         *)
(* deadline, for sleep stops it; so what it is for is due, and accepted,   *)
(* when it fires.                                                          *)
(*                                                                         *)
(* Usage periods: the days before a month grow, so a moment has one month  *)
(* and its period the reset midnight after it.  What grows along the       *)
(* months is shown by its smallest counterexample.                         *)
(*                                                                         *)
(* Antigravity: as for the tools, with the endpoints not asked yet.        *)
(*                                                                         *)
(* Session logs: what a session had used at each time is a story the logs  *)
(* only bound, for tools die between two records and files are cut or lie. *)
(* There is such a story by which the store is sound: the events of a      *)
(* session add up to no more than it had used when its counter was set,    *)
(* and to all the counter says if it is not partial.  A record that comes  *)
(* prolongs the story; one that is read sets the counter to a value the    *)
(* story has at that time; a deletion begins a new one.  And all before    *)
(* the point of a file was read, unless the file is to be read anew.       *)
(***************************************************************************)
EXTENDS Tools, Sums_proofs, SequenceTheorems

Mine == {c \in calls : c.gen = generation}

SyncTypes ==
  /\ tool \in Tools
  /\ enabled \in BOOLEAN /\ syncing \in BOOLEAN
  /\ login \in [Places -> Logins]
  /\ generation \in Nat
  /\ calls \subseteq Call

(* No request carries a generation that is not there yet.                  *)
NoFuture == \A c \in calls : c.gen <= generation

(* Requests of the current generation: one in a sync, which only an        *)
(* enabled monitor shows, and else none.                                   *)
OneMine ==
  /\ syncing => enabled /\ \E c \in calls : Mine = {c}
  /\ ~syncing => Mine = {}

(* Copilot's is about its seats and carries the token that is set.         *)
MineOfAccount ==
  tool = "copilot" => \A c \in Mine : c.stage = "billing" /\ c.login = login["file"]

SyncInv == SyncTypes /\ NoFuture /\ OneMine /\ MineOfAccount

-----------------------------------------------------------------------------
(* What an action may do to the requests *)

Untouched == UNCHANGED <<generation, syncing, calls>>

(* An enabled, idle monitor sends the first request of a new generation.   *)
BeginsSync ==
  /\ enabled /\ ~syncing
  /\ \E stage \in Stages, l \in Sessions, cookie \in Logins :
       /\ Begins(stage, l, cookie)
       /\ tool = "copilot" => stage = "billing" /\ l = login["file"]

(* A generation ends without a request.                                    *)
Gives ==
  /\ generation' = generation + 1
  /\ syncing' = FALSE
  /\ calls' = calls

(* The invariant is kept by what touches no request.                       *)
LEMMA UntouchedInv ==
  ASSUME SyncInv, Untouched, tool' = tool,
         login' \in [Places -> Logins], tool = "copilot" => login' = login \/ ~syncing,
         enabled' \in BOOLEAN, syncing => enabled'
  PROVE  SyncInv'
BY DEF SyncInv, SyncTypes, NoFuture, OneMine, MineOfAccount, Mine, Untouched

(* And by the beginning of a sync.                                         *)
LEMMA BeginsInv ==
  ASSUME SyncInv, BeginsSync, UNCHANGED <<tool, enabled, login>>
  PROVE  SyncInv'
<1>1. PICK stage \in Stages, l \in Sessions, cookie \in Logins :
        /\ Begins(stage, l, cookie)
        /\ tool = "copilot" => stage = "billing" /\ l = login["file"]
  BY DEF BeginsSync
<1> DEFINE c == [gen |-> generation', stage |-> stage, login |-> l, cookie |-> cookie]
<1>2. generation' = generation + 1 /\ syncing' = TRUE /\ calls' = calls \cup {c} /\ enabled
  BY <1>1 DEF Begins, BeginsSync
<1>3. generation' \in Nat /\ c \in Call
  BY <1>2 DEF SyncInv, SyncTypes, Call
<1>4. c.gen = generation' /\ c.stage = stage /\ c.login = l
  OBVIOUS
<1> HIDE DEF c
<1>5. \A d \in calls : d.gen \in Nat /\ d.gen <= generation
  BY DEF SyncInv, SyncTypes, NoFuture, Call
<1>6. Mine' = {c}
  BY <1>2, <1>4, <1>5 DEF Mine, SyncInv, SyncTypes
<1>7. SyncTypes'
  BY <1>2, <1>3 DEF SyncInv, SyncTypes
<1>8. NoFuture'
  BY <1>2, <1>3, <1>4, <1>5 DEF NoFuture, SyncInv, SyncTypes
<1>9. OneMine'
  BY <1>2, <1>6 DEF OneMine
<1>10. MineOfAccount'
  BY <1>1, <1>4, <1>6 DEF MineOfAccount
<1> QED
  BY <1>7, <1>8, <1>9, <1>10 DEF SyncInv

(* And by the end of a generation: its requests are of the past.           *)
LEMMA GivesInv ==
  ASSUME SyncInv, Gives, tool' = tool,
         login' \in [Places -> Logins], enabled' \in BOOLEAN
  PROVE  SyncInv'
<1>1. \A d \in calls : d.gen \in Nat /\ d.gen <= generation
  BY DEF SyncInv, SyncTypes, NoFuture, Call
<1>2. Mine' = {}
  BY <1>1 DEF Mine, Gives, SyncInv, SyncTypes
<1>3. generation' \in Nat /\ NoFuture'
  BY <1>1 DEF Gives, SyncInv, SyncTypes, NoFuture
<1>4. SyncTypes'
  BY <1>3 DEF Gives, SyncInv, SyncTypes
<1> QED
  BY <1>2, <1>3, <1>4 DEF SyncInv, OneMine, MineOfAccount, Gives

(* A reply of another generation takes nothing from the current one.       *)
LEMMA DroppedInv ==
  ASSUME SyncInv, NEW c \in calls, Dropped(c), tool' = tool
  PROVE  SyncInv'
<1>1. generation' = generation /\ syncing' = syncing /\ enabled' = enabled /\ login' = login
  BY DEF Dropped, config
<1>2. c \notin Mine
  BY DEF Dropped, Current, Mine, SyncInv, OneMine
<1>3. calls' = calls \ {c} /\ Mine' = Mine
  BY <1>1, <1>2 DEF Dropped, Mine
<1>4. OneMine'
  BY <1>1, <1>2, <1>3 DEF SyncInv, OneMine
<1>5. SyncTypes' /\ NoFuture' /\ MineOfAccount'
  BY <1>1, <1>3 DEF SyncInv, SyncTypes, NoFuture, MineOfAccount
<1> QED
  BY <1>4, <1>5 DEF SyncInv

(* The request that is answered is the only one of its generation.         *)
LEMMA AnsweredIsMine ==
  ASSUME SyncInv, NEW c \in calls, Current(c)
  PROVE  Mine = {c} /\ syncing /\ enabled
BY DEF SyncInv, OneMine, Mine, Current, SyncTypes

(* With it the sync ends.                                                  *)
LEMMA EndsInv ==
  ASSUME SyncInv, NEW c \in calls, Answered(c), Ends(c), tool' = tool
  PROVE  SyncInv'
<1>1. generation' = generation /\ enabled' = enabled /\ login' = login
  BY DEF Answered, config
<1>2. syncing' = FALSE /\ calls' = calls \ {c}
  BY DEF Ends
<1>3. Mine = {c}
  BY AnsweredIsMine DEF Answered
<1>4. Mine' = {}
  BY <1>1, <1>2, <1>3 DEF Mine
<1>5. SyncTypes'
  BY <1>1, <1>2 DEF SyncInv, SyncTypes
<1>6. NoFuture'
  BY <1>1, <1>2 DEF SyncInv, NoFuture
<1>7. OneMine' /\ MineOfAccount'
  BY <1>2, <1>4 DEF OneMine, MineOfAccount
<1> QED
  BY <1>5, <1>6, <1>7 DEF SyncInv

(* Or the next request of the sync takes its place.                        *)
LEMMA GoesOnInv ==
  ASSUME SyncInv, NEW c \in calls, Answered(c), c.stage # "billing",
         NEW d \in Call, d.gen = c.gen, calls' = (calls \ {c}) \cup {d},
         syncing' = syncing, tool' = tool
  PROVE  SyncInv'
<1>1. generation' = generation /\ enabled' = enabled /\ login' = login
  BY DEF Answered, config
<1>2. Mine = {c} /\ syncing /\ enabled /\ c.gen = generation
  BY AnsweredIsMine DEF Answered, Current
<1>3. Mine' = {d}
  BY <1>1, <1>2 DEF Mine
<1>4. SyncTypes'
  BY <1>1 DEF SyncInv, SyncTypes
<1>5. NoFuture'
  BY <1>1, <1>2 DEF SyncInv, SyncTypes, NoFuture
<1>6. OneMine'
  BY <1>1, <1>2, <1>3 DEF OneMine
<1>7. tool # "copilot"
  BY <1>2 DEF SyncInv, MineOfAccount
<1> QED
  BY <1>4, <1>5, <1>6, <1>7 DEF SyncInv, MineOfAccount

-----------------------------------------------------------------------------
(* The actions *)

LEMMA InitInv == Init => SyncInv
<1> SUFFICES ASSUME Init PROVE SyncInv
  OBVIOUS
<1>1. SyncTypes
  BY DEF Init, SyncTypes
<1> QED
  BY <1>1 DEF Init, SyncInv, NoFuture, OneMine, MineOfAccount, Mine

(* Whoever asks, a sync begins, or a generation is given up, or nothing.   *)
LEMMA CodexStarts ==
  ASSUME SyncInv, tool = "codex", enabled, ~syncing, NEW cookie \in Logins, StartCodex(cookie)
  PROVE  BeginsSync \/ Gives
<1>1. CASE login["file"] # NoLogin
  <2>1. login["file"] \in Sessions
    BY <1>1 DEF SyncInv, SyncTypes, Logins, Places
  <2>2. Begins("local", login["file"], cookie)
    BY <1>1 DEF StartCodex
  <2> QED
    BY <2>1, <2>2 DEF BeginsSync, Stages
<1>2. CASE login["file"] = NoLogin /\ cookie = NoLogin
  BY <1>2 DEF StartCodex, NotLoggedIn, Gives, SyncInv, SyncTypes
<1>3. CASE login["file"] = NoLogin /\ cookie # NoLogin
  <2>1. Begins("account", cookie, NoLogin) /\ cookie \in Sessions
    BY <1>3 DEF StartCodex, Logins
  <2> QED
    BY <2>1 DEF BeginsSync, Stages, Logins
<1> QED
  BY <1>1, <1>2, <1>3

LEMMA BrowserStarts ==
  ASSUME SyncInv, tool \in {"claude", "codex"}, enabled, ~syncing, BrowserSync
  PROVE  BeginsSync \/ Gives \/ Untouched
<1>1. CASE login["browser"] # NoLogin /\ tool = "claude" /\ Begins("bootstrap", login["browser"], NoLogin)
  <2>1. login["browser"] \in Sessions
    BY <1>1 DEF SyncInv, SyncTypes, Logins, Places
  <2> QED
    BY <1>1, <2>1 DEF BeginsSync, Stages, Logins
<1>2. CASE tool = "codex" /\ StartCodex(login["browser"])
  <2>1. login["browser"] \in Logins
    BY DEF SyncInv, SyncTypes, Places
  <2> QED
    BY <1>2, <2>1, CodexStarts
<1>3. CASE UNCHANGED <<generation, syncing, completed, calls, needsAction>>
  BY <1>3 DEF Untouched
<1> QED
  BY <1>1, <1>2, <1>3 DEF BrowserSync

LEMMA AutomaticStarts ==
  ASSUME SyncInv, AutomaticSync
  PROVE  BeginsSync \/ Gives \/ Untouched
<1> USE DEF NothingStarts
<1>1. tool \in {"claude", "codex", "copilot"}
  BY DEF AutomaticSync
<1>2. CASE tool = "claude"
  <2>1. Untouched \/ (enabled /\ ~syncing /\ BrowserSync)
    BY <1>2 DEF AutomaticSync, AutomaticClaude, AutomaticCodex, CanAutoSync, Untouched
  <2> QED
    BY <1>2, <2>1, BrowserStarts
<1>3. CASE tool = "codex"
  <2>1. \/ Untouched
        \/ enabled /\ ~syncing /\ login["file"] # NoLogin /\ Begins("local", login["file"], NoLogin)
        \/ enabled /\ ~syncing /\ StartCodex(NoLogin)
    BY <1>3 DEF AutomaticSync, AutomaticClaude, AutomaticCodex, CanAutoSync, Untouched
  <2>2. NoLogin \in Logins
    BY DEF Logins
  <2>3. login["file"] # NoLogin => login["file"] \in Sessions
    BY DEF SyncInv, SyncTypes, Logins, Places
  <2> QED
    BY <1>3, <2>1, <2>2, <2>3, CodexStarts DEF BeginsSync, Stages
<1>4. CASE tool = "copilot"
  <2>1. \/ Untouched
        \/ enabled /\ ~syncing /\ login["file"] # NoLogin /\ Begins("billing", login["file"], NoLogin)
    BY <1>4 DEF AutomaticSync, AutomaticCopilot, Untouched
  <2>2. NoLogin \in Logins
    BY DEF Logins
  <2>3. login["file"] # NoLogin => login["file"] \in Sessions
    BY DEF SyncInv, SyncTypes, Logins, Places
  <2> QED
    BY <2>1, <2>2, <2>3 DEF BeginsSync, Stages
<1> QED
  BY <1>1, <1>2, <1>3, <1>4

LEMMA StartsInv ==
  ASSUME SyncInv, BeginsSync \/ Gives \/ Untouched, UNCHANGED <<config, tool>>
  PROVE  SyncInv'
<1>1. enabled' = enabled /\ login' = login /\ tool' = tool
  BY DEF config
<1>2. enabled \in BOOLEAN /\ login \in [Places -> Logins] /\ (syncing => enabled)
  BY DEF SyncInv, SyncTypes, OneMine
<1> QED
  BY <1>1, <1>2, BeginsInv, GivesInv, UntouchedInv

(* A changed account cancels what was asked for the old one and may ask    *)
(* for the new one in the same step.                                       *)
LEMMA SetAccountInv ==
  ASSUME SyncInv, NEW l \in Logins, SetAccount(l), tool' = tool
  PROVE  SyncInv'
<1>1. tool = "copilot" /\ enabled' = enabled /\ login' = [login EXCEPT !["file"] = l]
  BY DEF SetAccount
<1>2. login' \in [Places -> Logins] /\ login'["file"] = l
  BY <1>1 DEF SyncInv, SyncTypes, Places
<1>3. enabled' \in BOOLEAN /\ (syncing => enabled')
  BY <1>1 DEF SyncInv, SyncTypes, OneMine
<1>4. CASE syncing /\ Cancels /\ calls' = calls
  BY <1>2, <1>3, <1>4, GivesInv DEF Cancels, Gives
<1>5. CASE ~syncing /\ UNCHANGED <<generation, syncing, completed>> /\ calls' = calls
  BY <1>2, <1>3, <1>5, UntouchedInv DEF Untouched
<1> DEFINE c == [gen |-> generation', stage |-> "billing", login |-> l, cookie |-> NoLogin]
<1>6. CASE /\ enabled /\ l # NoLogin
           /\ generation' = IF syncing THEN generation + 2 ELSE generation + 1
           /\ syncing' = TRUE
           /\ calls' = calls \cup {c}
  <2>1. \A d \in calls : d.gen \in Nat /\ d.gen <= generation
    BY DEF SyncInv, SyncTypes, NoFuture, Call
  <2>2. generation \in Nat /\ generation' \in Nat /\ generation' > generation
    BY <1>6 DEF SyncInv, SyncTypes
  <2>3. c \in Call /\ c.gen = generation' /\ c.stage = "billing" /\ c.login = l
    BY <1>6, <2>2 DEF Call, Logins, Stages
  <2> HIDE DEF c
  <2>4. Mine' = {c}
    BY <1>6, <2>1, <2>2, <2>3 DEF Mine
  <2>5. SyncTypes'
    BY <1>1, <1>2, <1>3, <1>6, <2>2, <2>3 DEF SyncInv, SyncTypes
  <2>6. NoFuture'
    BY <1>6, <2>1, <2>2, <2>3 DEF NoFuture
  <2>7. OneMine'
    BY <1>1, <1>6, <2>4 DEF OneMine
  <2>8. MineOfAccount'
    BY <1>2, <2>3, <2>4 DEF MineOfAccount
  <2> QED
    BY <2>5, <2>6, <2>7, <2>8 DEF SyncInv
<1> QED
  BY <1>4, <1>5, <1>6 DEF SetAccount

LEMMA SwitchInv ==
  ASSUME SyncInv, NEW b \in BOOLEAN, SetEnabled(b) \/ SetSyncEnabled(b), tool' = tool
  PROVE  SyncInv'
<1>1. login' = login /\ calls' = calls
  BY DEF SetEnabled, SetSyncEnabled
<1>2. login \in [Places -> Logins] /\ enabled \in BOOLEAN /\ (syncing => enabled)
  BY DEF SyncInv, SyncTypes, OneMine
<1>3. enabled' \in BOOLEAN
  BY <1>2 DEF SetEnabled, SetSyncEnabled
<1>4. CASE Cancels
  BY <1>1, <1>2, <1>3, <1>4, GivesInv DEF Cancels, Gives
<1>5. CASE UNCHANGED <<generation, syncing, completed>> /\ (enabled' = TRUE \/ enabled' = enabled)
  BY <1>1, <1>2, <1>3, <1>5, UntouchedInv DEF Untouched
<1> QED
  BY <1>4, <1>5 DEF SetEnabled, SetSyncEnabled

LEMMA ReplyInv ==
  ASSUME SyncInv, NEW c \in calls, Reply(c), tool' = tool
  PROVE  SyncInv'
<1>1. c \in Call
  BY DEF SyncInv, SyncTypes
<1>2. CASE Dropped(c)
  BY <1>2, DroppedInv
<1>3. CASE Continues(c)
  <2>1. [c EXCEPT !.stage = "usage"] \in Call /\ [c EXCEPT !.stage = "usage"].gen = c.gen
    BY <1>1 DEF Call, Stages
  <2> QED
    BY <1>3, <2>1, GoesOnInv DEF Continues
<1>4. CASE UsageArrives(c) \/ LocalUsageArrives(c) \/ AccountArrives(c) \/ BillingArrives(c)
  BY <1>4, EndsInv DEF UsageArrives, LocalUsageArrives, AccountArrives, BillingArrives, Success
<1>5. ASSUME NEW declared \in Declared, Refused(c, declared)
      PROVE  SyncInv'
  <2>1. Answered(c)
    BY <1>5 DEF Refused
  <2>2. CASE Ends(c)
    BY <2>1, <2>2, EndsInv
  <2>3. CASE /\ c.stage = "local" /\ c.cookie # NoLogin /\ syncing' = syncing
             /\ calls' = (calls \ {c}) \cup {[c EXCEPT !.stage = "account",
                                                !.login = c.cookie, !.cookie = NoLogin]}
    <3> DEFINE d == [c EXCEPT !.stage = "account", !.login = c.cookie, !.cookie = NoLogin]
    <3>1. d \in Call /\ d.gen = c.gen
      BY <1>1, <2>3 DEF Call, Stages, Logins
    <3> QED
      BY <2>1, <2>3, <3>1, GoesOnInv
  <2> QED
    BY <1>5, <2>2, <2>3 DEF Refused
<1>6. CASE \E declared \in Declared : Fails(c, declared)
  BY <1>6, EndsInv DEF Fails
<1>7. CASE Unreadable(c) \/ NoOrganization(c)
  BY <1>7, EndsInv DEF Unreadable, NoOrganization
<1> QED
  BY <1>2, <1>3, <1>4, <1>5, <1>6, <1>7 DEF Reply

LEMMA StepInv == SyncInv /\ [Next]_vars => SyncInv'
<1> SUFFICES ASSUME SyncInv, [Next]_vars PROVE SyncInv'
  OBVIOUS
<1>1. login \in [Places -> Logins] /\ enabled \in BOOLEAN /\ (syncing => enabled)
  BY DEF SyncInv, SyncTypes, OneMine
<1>2. CASE UNCHANGED vars
  BY <1>1, <1>2, UntouchedInv DEF vars, config, Untouched
<1>3. ASSUME Next PROVE SyncInv'
  <2>1. tool' = tool
    BY <1>3 DEF Next
  <2>2. CASE TimerFires \/ Recover
    BY <2>1, <2>2, AutomaticStarts, StartsInv DEF TimerFires, Recover
  <2>3. CASE ManualSync
    <3>1. tool \in {"claude", "codex"} /\ enabled /\ ~syncing /\ BrowserSync /\ UNCHANGED config
      BY <2>3, SyncAssumption DEF ManualSync, CanAutoSync, SyncInv, SyncTypes
    <3> QED
      BY <2>1, <3>1, BrowserStarts, StartsInv
  <2>4. ASSUME NEW b \in BOOLEAN, SetEnabled(b) \/ SetSyncEnabled(b) PROVE SyncInv'
    BY <2>1, <2>4, SwitchInv
  <2>5. ASSUME NEW place \in Places, NEW l \in Logins, SignIn(place, l) PROVE SyncInv'
    <3>1. login' \in [Places -> Logins] /\ tool # "copilot" /\ enabled' = enabled /\ Untouched
      BY <1>1, <2>5 DEF SignIn, Untouched
    <3> QED
      BY <1>1, <2>1, <3>1, UntouchedInv
  <2>6. ASSUME NEW l \in Logins, SetAccount(l) PROVE SyncInv'
    BY <2>1, <2>6, SetAccountInv
  <2>7. CASE (\E s \in Sessions : Expire(s)) \/ (\E b \in BOOLEAN : SetOnline(b)) \/ Tick
    <3>1. Untouched /\ login' = login /\ enabled' = enabled
      BY <2>7 DEF Expire, SetOnline, Tick, config, Untouched
    <3> QED
      BY <1>1, <2>1, <3>1, UntouchedInv
  <2>8. ASSUME NEW c \in calls, Reply(c) PROVE SyncInv'
    BY <2>1, <2>8, ReplyInv
  <2> QED
    BY <1>3, <2>2, <2>3, <2>4, <2>5, <2>6, <2>7, <2>8 DEF Next, Step
<1> QED
  BY <1>2, <1>3

-----------------------------------------------------------------------------

LEMMA Invariance == Spec => []SyncInv
<1>1. SyncInv /\ [Next]_vars => SyncInv'
  BY StepInv
<1> QED
  BY InitInv, <1>1, PTL DEF Spec

(* The monitor shows a sync exactly while one request of the current       *)
(* generation is under way (subscriptiontoolbackend.cpp, beginSync,        *)
(* cancelSync and syncReplyIsCurrent).                                     *)
THEOREM OneCall == Spec => []OneCallPerSync
<1>1. SyncInv => OneCallPerSync
  <2> SUFFICES ASSUME SyncInv PROVE OneCallPerSync
    OBVIOUS
  <2>1. CASE enabled
    BY <2>1 DEF SyncInv, OneMine, Mine, OneCallPerSync, Live, Current
  <2>2. CASE ~enabled
    BY <2>2 DEF SyncInv, OneMine, OneCallPerSync, Live, Current
  <2> QED
    BY <2>1, <2>2
<1> QED
  BY Invariance, <1>1, PTL

(* Seats are shown only for the token and organization that are set when   *)
(* the answer arrives (copilotmonitor.cpp, setGithubToken and setOrgName). *)
THEOREM OfCurrentAccount == Spec => MetricsOfCurrentAccount
<1> DEFINE Kept == tool = "copilot" /\ quota' # quota =>
                     quota'.login = login["file"] /\ enabled /\ syncing
<1>1. SyncInv /\ [Next]_vars => [Kept]_vars
  <2> SUFFICES ASSUME SyncInv, Next, tool = "copilot", quota' # quota
               PROVE  quota'.login = login["file"] /\ enabled /\ syncing
    BY DEF vars
  <2>1. PICK c \in calls : Reply(c)
    BY DEF Next, Step, TimerFires, Recover, ManualSync, SetEnabled, SetSyncEnabled, SetOnline,
           SignIn, SetAccount, Expire, Tick
  <2>2. Answered(c) /\ quota' = [at |-> now, login |-> c.login]
    BY <2>1 DEF Reply, Dropped, Continues, UsageArrives, LocalUsageArrives, AccountArrives,
                BillingArrives, Observes, Success, Refused, Fails, Unreadable, NoOrganization
  <2>3. Mine = {c} /\ syncing /\ enabled
    BY <2>2, AnsweredIsMine DEF Answered
  <2> QED
    BY <2>2, <2>3 DEF SyncInv, MineOfAccount
<1> QED
  BY Invariance, <1>1, PTL DEF Spec, MetricsOfCurrentAccount

-----------------------------------------------------------------------------
(* The timer *)

TimeTypes ==
  /\ now \in Nat
  /\ completed \in Nat \cup {Never}
  /\ retryAfter \in Nat \cup {Never}
  /\ failures \in 0 .. 4

DueTypes == due \in Nat \cup {Never}

(* A source that waits for nothing.                                        *)
Ready ==
  /\ enabled /\ ~needsAction /\ ~syncing
  /\ tool = "copilot" => online /\ login["file"] # NoLogin

(* Ready sources have a deadline, and a deadline has a running timer.      *)
TimerKept == tool # "claude" => (Ready => due # Never) /\ (due # Never => armed)

TimerInv == TimeTypes /\ DueTypes /\ TimerKept

LEMMA BackoffTypes ==
  ASSUME TimeTypes, NEW refused, NEW declared \in Nat, HttpFailure(refused, declared)
  PROVE  failures' \in 0 .. 4 /\ retryAfter' \in Nat
<1>1. failures' \in 1 .. 4
  BY DEF HttpFailure, TimeTypes
<1>2. Doublings[failures'] \in Nat
  BY <1>1 DEF Doublings
<1>3. retryAfter' = now + Later(Doublings[failures'], declared) /\ now \in Nat
  BY DEF HttpFailure, TimeTypes
<1> QED
  BY <1>1, <1>2, <1>3 DEF Later

(* The moments and delays stay what they are.                              *)
LEMMA StepTimes ==
  ASSUME TimeTypes, [Next]_vars
  PROVE  TimeTypes'
<1> USE DEF TimeTypes
<1>1. CASE UNCHANGED vars
  BY <1>1 DEF vars, retry
<1>2. ASSUME AutomaticSync, now' = now PROVE TimeTypes'
  BY <1>2 DEF AutomaticSync, AutomaticClaude, AutomaticCodex, AutomaticCopilot, NothingStarts,
              BrowserSync, StartCodex, Begins, NotLoggedIn, ResetRetry, retry
<1>3. ASSUME NEW c \in calls, Reply(c) PROVE TimeTypes'
  <2>1. CASE Dropped(c) \/ Continues(c)
    BY <2>1 DEF Dropped, Continues, Answered, retry
  <2>2. CASE UsageArrives(c) \/ LocalUsageArrives(c) \/ AccountArrives(c) \/ BillingArrives(c)
    BY <2>2 DEF UsageArrives, LocalUsageArrives, AccountArrives, BillingArrives, Success,
                Answered, Ends, ResetRetry
  <2>3. ASSUME NEW declared \in Declared, Refused(c, declared) \/ Fails(c, declared)
        PROVE  TimeTypes'
    <3>1. declared \in Nat
      BY SyncAssumption
    <3>2. failures' \in 0 .. 4 /\ retryAfter' \in Nat
      BY <2>3, <3>1, BackoffTypes DEF Refused, Fails
    <3> QED
      BY <2>3, <3>2 DEF Refused, Fails, Answered, Ends
  <2>4. CASE Unreadable(c)
    BY <2>4 DEF Unreadable, Answered, Ends
  <2>5. CASE NoOrganization(c)
    <3>1. failures' \in 0 .. 4 /\ retryAfter' \in Nat \cup {Never}
      BY <2>5, BackoffTypes DEF NoOrganization, retry
    <3> QED
      BY <2>5, <3>1 DEF NoOrganization, Answered, Ends
  <2> QED
    BY <1>3, <2>1, <2>2, <2>3, <2>4, <2>5 DEF Reply
<1>4. CASE TimerFires \/ Recover
  BY <1>2, <1>4 DEF TimerFires, Recover
<1>5. CASE ManualSync
  BY <1>5 DEF ManualSync, BrowserSync, StartCodex, Begins, NotLoggedIn
<1>6. CASE \E b \in BOOLEAN : SetEnabled(b) \/ SetSyncEnabled(b) \/ SetOnline(b)
  BY <1>6 DEF SetEnabled, SetSyncEnabled, SetOnline, Cancels, retry
<1>7. CASE \/ \E place \in Places, l \in Logins : SignIn(place, l)
           \/ \E s \in Sessions : Expire(s)
           \/ Tick
  BY <1>7 DEF SignIn, Expire, Tick, retry
<1>8. CASE \E l \in Logins : SetAccount(l)
  BY <1>8 DEF SetAccount, Cancels, ResetRetry
<1> QED
  BY <1>1, <1>3, <1>4, <1>5, <1>6, <1>7, <1>8 DEF Next, Step

LEMMA LaterTypes ==
  ASSUME NEW a \in Nat, NEW b \in Nat \cup {Never}
  PROVE  Later(a, b) \in Nat /\ Later(a, b) >= b
BY DEF Later, Never

(* A deadline is a moment after Retry-After, or none.                      *)
LEMMA DueMoment ==
  ASSUME TimeTypes', NEW running, RescheduleFrom(running)
  PROVE  /\ DueTypes'
         /\ Schedulable(online') => due' \in Nat /\ due' >= retryAfter'
         /\ ~Schedulable(online') => due' = Never
<1> DEFINE last == IF completed' = Never THEN now' ELSE completed'
           from == last + Interval
<1>0. last \in Nat
  BY DEF TimeTypes
<1> HIDE DEF last
<1>1. from \in Nat /\ retryAfter' \in Nat \cup {Never}
  BY <1>0, SyncAssumption DEF TimeTypes
<1> USE DEF last
<1>2. due' = IF Schedulable(online') THEN Later(from, retryAfter') ELSE Never
  BY DEF RescheduleFrom
<1> HIDE DEF from
<1>3. Later(from, retryAfter') \in Nat /\ Later(from, retryAfter') >= retryAfter'
  BY <1>1, LaterTypes
<1> QED
  BY <1>2, <1>3 DEF DueTypes

(* The deadline of a ready source is a moment, any other source has none.  *)
LEMMA Deadlines ==
  ASSUME TimeTypes', NEW running, RescheduleFrom(running), tool' = tool,
         tool \in {"codex", "copilot"}
  PROVE  /\ Ready' <=> due' # Never
         /\ Ready' => due' >= retryAfter'
<1>1. Ready' <=> Schedulable(online')
  BY DEF Ready, Schedulable
<1>2. ASSUME NEW n \in Nat PROVE n # Never
  BY DEF Never
<1> QED
  BY <1>1, <1>2, DueMoment

(* A deadline that is new starts the timer.                                *)
LEMMA Arms ==
  ASSUME NEW running, RescheduleFrom(running), due' # Never, due' # due \/ running = TRUE
  PROVE  armed'
<1>1. armed' = IF due' = due THEN running ELSE due' # Never
  BY DEF RescheduleFrom
<1>2. CASE due' # due
  BY <1>1, <1>2, Zenon
<1>3. CASE due' = due /\ running = TRUE
  BY <1>1, <1>3, Zenon
<1> QED
  BY <1>2, <1>3

(* A deadline that changes restarts the timer; one that does not leaves it *)
(* running.                                                                *)
LEMMA RescheduleKeeps ==
  ASSUME TimerInv, TimeTypes', Reschedule, tool' = tool, tool \in Tools
  PROVE  TimerInv'
<1> USE DEF Reschedule
<1>0. DueTypes'
  BY DueMoment
<1>1. CASE tool = "claude"
  BY <1>0, <1>1 DEF TimerInv, TimerKept
<1>2. CASE tool # "claude"
  <2>1. tool \in {"codex", "copilot"}
    BY <1>2, SyncAssumption
  <2>2. Ready' <=> due' # Never
    BY <2>1, Deadlines
  <2>3. due # Never => armed = TRUE
    BY <1>2 DEF TimerInv, TimerKept
  <2>4. due' # Never => armed'
    BY <2>3, Arms
  <2> QED
    BY <1>0, <2>2, <2>4 DEF TimerInv, TimerKept
<1> QED
  BY <1>1, <1>2

LEMMA RestingKeeps ==
  ASSUME TimerInv, TimeTypes', UNCHANGED timer, tool' = tool, tool = "claude" \/ (Ready' => Ready)
  PROVE  TimerInv'
BY DEF TimerInv, DueTypes, TimerKept, timer

(* The timer that has fired is not restarted by the deadline it had: it is *)
(* there only if nothing was started, and then Retry-After has moved it.   *)
LEMMA FiringKeeps ==
  ASSUME TimerInv, TimeTypes', TimerFires, tool' = tool, tool \in Tools
  PROVE  TimerInv'
<1>0. DueTypes' /\ RescheduleFrom(FALSE)
  BY DueMoment DEF TimerFires
<1>1. CASE tool = "claude"
  BY <1>0, <1>1 DEF TimerInv, TimerKept
<1>2. CASE tool \in {"codex", "copilot"}
  <2>1. (Ready' <=> due' # Never) /\ (Ready' => due' >= retryAfter')
    BY <1>0, <1>2, Deadlines
  <2>2. Ready' => tool = "codex" /\ retryAfter' = retryAfter /\ retryAfter > now /\ retryAfter # Never
    <3>1. CASE tool = "copilot"
      BY <3>1 DEF TimerFires, AutomaticSync, AutomaticCopilot, NothingStarts, Begins, Ready, config, retry
    <3>2. CASE tool = "codex"
      BY <3>2 DEF TimerFires, AutomaticSync, AutomaticCodex, NothingStarts, StartCodex, Begins,
                  NotLoggedIn, CanAutoSync, Ready, config, retry, TimerInv, TimeTypes
    <3> QED
      BY <1>2, <3>1, <3>2
  <2>3. Ready' => due' # due
    BY <1>0, <2>1, <2>2 DEF TimerFires, TimerInv, TimeTypes, DueTypes, Never
  <2>4. Ready' => armed'
    BY <1>0, <2>1, <2>3, Arms
  <2> QED
    BY <1>0, <2>1, <2>4 DEF TimerInv, TimerKept
<1> QED
  BY <1>1, <1>2, SyncAssumption

(* Every other action leaves a timer as it is only if it makes no source   *)
(* ready.                                                                  *)
LEMMA StepTimer ==
  ASSUME SyncInv, TimerInv, [Next]_vars
  PROVE  TimerInv'
<1>1. TimeTypes'
  BY StepTimes DEF TimerInv
<1>2. tool' = tool /\ tool \in Tools /\ tool \in {"claude", "codex", "copilot"}
  BY SyncAssumption DEF Next, vars, SyncInv, SyncTypes
<1> USE <1>1, <1>2
<1>3. CASE UNCHANGED vars
  BY <1>3, RestingKeeps DEF vars, config, retry, Ready
<1>4. CASE TimerFires
  BY <1>4, FiringKeeps
<1>5. CASE Recover \/ ManualSync
  <2>1. CASE Reschedule
    BY <2>1, RescheduleKeeps
  <2>2. CASE UNCHANGED <<timer, config, syncing, needsAction>>
    BY <2>2, RestingKeeps DEF config, Ready
  <2> QED
    BY <1>5, <2>1, <2>2 DEF Recover, ManualSync, retry
<1>6. CASE \E b \in BOOLEAN : SetEnabled(b) \/ SetOnline(b)
  BY <1>6, RescheduleKeeps DEF SetEnabled, SetOnline
<1>7. ASSUME NEW b \in BOOLEAN, SetSyncEnabled(b) PROVE TimerInv'
  <2>1. CASE Reschedule
    BY <2>1, RescheduleKeeps
  <2>2. CASE UNCHANGED timer /\ syncing' = syncing /\ tool # "copilot"
    BY <1>7, <2>2, RestingKeeps DEF SetSyncEnabled, Ready, retry
  <2> QED
    BY <1>7, <2>1, <2>2 DEF SetSyncEnabled
<1>8. CASE \E place \in Places, l \in Logins : SignIn(place, l)
  BY <1>8, RestingKeeps DEF SignIn, Ready, retry
<1>9. CASE \E l \in Logins : SetAccount(l)
  BY <1>9, RescheduleKeeps DEF SetAccount
<1>10. CASE (\E s \in Sessions : Expire(s)) \/ Tick
  BY <1>10, RestingKeeps DEF Expire, Tick, Ready, retry, config
<1>11. ASSUME NEW c \in calls, Reply(c) PROVE TimerInv'
  <2>1. CASE Ends(c)
    BY <2>1, RescheduleKeeps DEF Ends
  <2>2. CASE Dropped(c) \/ Continues(c)
    BY <2>2, RestingKeeps DEF Dropped, Continues, Answered, Ready, retry, config
  <2>3. ASSUME NEW declared \in Declared, Refused(c, declared), UNCHANGED <<syncing, completed, timer>>
        PROVE  TimerInv'
    <3>1. ~Ready'
      BY <2>3, AnsweredIsMine DEF Refused, Answered, Ready, SyncInv, SyncTypes
    <3> QED
      BY <2>3, <3>1, RestingKeeps
  <2> QED
    BY <1>11, <2>1, <2>2, <2>3 DEF Reply, UsageArrives, LocalUsageArrives, AccountArrives,
       BillingArrives, Success, Refused, Fails, Unreadable, NoOrganization
<1> QED
  BY <1>3, <1>4, <1>5, <1>6, <1>7, <1>8, <1>9, <1>10, <1>11 DEF Next, Step

LEMMA TimerInvariance == Spec => []TimerInv
<1>1. Init => TimerInv
  <2> SUFFICES ASSUME Init PROVE TimerInv
    OBVIOUS
  <2>1. TimeTypes /\ DueTypes
    BY SyncAssumption DEF Init, TimeTypes, DueTypes
  <2>2. Interval # Never
    BY SyncAssumption DEF Never
  <2>3. TimerKept
    BY <2>2, Zenon DEF Init, TimerKept, Ready
  <2> QED
    BY <2>1, <2>3 DEF TimerInv
<1>2. SyncInv /\ TimerInv /\ [Next]_vars => TimerInv'
  BY StepTimer
<1> QED
  BY Invariance, <1>1, <1>2, PTL DEF Spec

(* The timer of a ready source runs (RefreshScheduler.qml, whose timers    *)
(* restart only when their deadline changes; Claude's may have stopped).   *)
THEOREM KeepsDeadline == Spec => []DeadlineKept
<1>1. TimerInv => DeadlineKept
  BY DEF TimerInv, TimerKept, DeadlineKept, Ready
<1> QED
  BY TimerInvariance, <1>1, PTL

-----------------------------------------------------------------------------
(* Retries *)

(* A deadline of Copilot's lies after what the last failure asked for,     *)
(* while the local login of Codex is known as refused the user must act,   *)
(* and a timer runs for a deadline.                                        *)
RetryKept ==
  /\ tool = "copilot" /\ due # Never => ~needsAction /\ retryAfter <= due
  /\ tool = "codex" /\ rejected # NoLogin => needsAction
  /\ armed => due # Never

(* Deadlines of Copilot are set for the retry state of the moment.         *)
LEMMA DueAllows ==
  ASSUME TimeTypes', NEW running, RescheduleFrom(running), tool' = tool, tool = "copilot",
         due' # Never
  PROVE  ~needsAction' /\ retryAfter' <= due'
<1>1. Ready' /\ due' >= retryAfter'
  BY Deadlines
<1>2. due' \in Nat \cup {Never} /\ retryAfter' \in Nat \cup {Never}
  BY DueMoment DEF DueTypes, TimeTypes
<1> QED BY <1>1, <1>2 DEF Ready, Never

LEMMA RescheduledRetry ==
  ASSUME TimeTypes', RetryKept, NEW running, running => armed, RescheduleFrom(running),
         tool' = tool, tool = "codex" /\ rejected' # NoLogin => needsAction'
  PROVE  RetryKept'
<1>1. armed' => due' # Never
  <2>1. armed' = IF due' = due THEN running ELSE due' # Never
    BY Zenon DEF RescheduleFrom
  <2>2. running => due # Never
    BY DEF RetryKept
  <2>3. CASE due' = due
    BY Zenon, <2>1, <2>2, <2>3
  <2>4. CASE due' # due
    BY Zenon, <2>1, <2>4
  <2> QED BY <2>3, <2>4
<1> QED BY <1>1, DueAllows DEF RetryKept

LEMMA SameRetry ==
  ASSUME RetryKept, tool' = tool, UNCHANGED <<due, armed, needsAction, retryAfter, rejected>>
  PROVE  RetryKept'
BY DEF RetryKept

(* An automatic sync forgets a refusal only for a login that is new.       *)
LEMMA AutomaticRetry ==
  ASSUME RetryKept, AutomaticSync, tool = "codex", rejected' # NoLogin
  PROVE  needsAction'
<1>1. CASE enabled /\ ~syncing /\ login["file"] \notin {NoLogin, seen}
  BY <1>1 DEF AutomaticSync, AutomaticCodex
<1>2. CASE ~(enabled /\ ~syncing /\ login["file"] \notin {NoLogin, seen})
  <2>1. rejected' = rejected /\ (needsAction' = needsAction \/ needsAction')
    BY <1>2 DEF AutomaticSync, AutomaticCodex, NothingStarts, StartCodex, NotLoggedIn, retry
  <2> QED BY <2>1 DEF RetryKept
<1> QED BY <1>1, <1>2

LEMMA StepRetry ==
  ASSUME SyncInv, TimerInv, RetryKept, [Next]_vars
  PROVE  RetryKept'
<1>1. TimeTypes'
  BY StepTimes DEF TimerInv
<1>2. tool' = tool
  BY DEF Next, vars
<1> USE <1>1, <1>2
<1>3. CASE UNCHANGED vars
  BY <1>3, SameRetry DEF vars, retry, timer
<1>4. CASE TimerFires
  BY <1>4, AutomaticRetry, RescheduledRetry DEF TimerFires
<1>5. CASE Recover
  <2>1. CASE UNCHANGED <<retry, timer>>
    BY <1>5, <2>1, AutomaticRetry DEF Recover, RetryKept, retry, timer
  <2>2. CASE Reschedule
    BY <1>5, <2>2, AutomaticRetry, RescheduledRetry DEF Recover, Reschedule
  <2> QED BY <1>5, <2>1, <2>2 DEF Recover, retry
<1>6. CASE ManualSync
  <2>1. UNCHANGED <<retryAfter, rejected>> /\ (needsAction' = needsAction \/ needsAction')
    BY <1>6 DEF ManualSync, BrowserSync, StartCodex, NotLoggedIn
  <2>2. tool = "codex" /\ rejected' # NoLogin => needsAction'
    BY <2>1 DEF RetryKept
  <2>3. CASE Reschedule
    BY <2>2, <2>3, RescheduledRetry DEF Reschedule
  <2>4. CASE UNCHANGED <<needsAction, timer>>
    BY <2>1, <2>4, SameRetry DEF timer
  <2> QED BY <1>6, <2>3, <2>4 DEF ManualSync
<1>7. CASE \E b \in BOOLEAN : SetEnabled(b) \/ SetSyncEnabled(b) \/ SetOnline(b)
  <2>1. UNCHANGED <<needsAction, retryAfter, rejected>>
    BY <1>7 DEF SetEnabled, SetSyncEnabled, SetOnline, retry
  <2>2. CASE Reschedule
    BY <2>1, <2>2, RescheduledRetry DEF Reschedule, RetryKept
  <2>3. CASE UNCHANGED timer
    BY <2>1, <2>3, SameRetry DEF timer
  <2> QED BY <1>7, <2>2, <2>3 DEF SetEnabled, SetSyncEnabled, SetOnline
<1>8. CASE \E place \in Places, l \in Logins : SignIn(place, l)
  BY <1>8 DEF SignIn, RetryKept, retry, timer
<1>9. CASE \E l \in Logins : SetAccount(l)
  BY <1>9, RescheduledRetry DEF SetAccount, Reschedule
<1>10. CASE (\E s \in Sessions : Expire(s)) \/ Tick
  BY <1>10, SameRetry DEF Expire, Tick, retry, timer
<1>11. ASSUME NEW c \in calls, Reply(c) PROVE RetryKept'
  <2>1. tool = "copilot" /\ Answered(c) => c.stage = "billing"
    BY AnsweredIsMine DEF Answered, SyncInv, MineOfAccount
  <2>2. CASE Dropped(c) \/ Continues(c)
    BY <2>2, SameRetry DEF Dropped, Continues, Answered, retry, timer
  <2>3. ASSUME Success(c) PROVE RetryKept'
    BY <2>3, RescheduledRetry DEF Success, Ends, Reschedule
  <2>4. ASSUME NEW declared \in Declared, Refused(c, declared) PROVE RetryKept'
    <3>1. needsAction'
      BY <2>4 DEF Refused, HttpFailure
    <3>2. CASE Ends(c)
      BY <3>1, <3>2, RescheduledRetry DEF Ends, Reschedule
    <3>3. CASE ~Ends(c)
      <4>1. c.stage = "local" /\ Answered(c) /\ UNCHANGED timer
        BY <2>4, <3>3 DEF Refused
      <4> QED BY <2>1, <3>1, <4>1 DEF RetryKept, timer
    <3> QED BY <2>4, <3>2, <3>3 DEF Refused
  <2>5. ASSUME NEW declared \in Declared, Fails(c, declared) PROVE RetryKept'
    <3>1. rejected' = rejected /\ needsAction' = (needsAction \/ FALSE) /\ Ends(c)
      BY <2>5 DEF Fails, HttpFailure
    <3>2. tool = "codex" /\ rejected' # NoLogin => needsAction'
      BY <3>1 DEF RetryKept
    <3> QED BY <3>1, <3>2, RescheduledRetry DEF Ends, Reschedule
  <2>6. CASE Unreadable(c)
    BY <2>6, RescheduledRetry DEF Unreadable, Ends, Reschedule
  <2>7. CASE NoOrganization(c)
    <3>1. rejected' = rejected /\ (needsAction => needsAction') /\ Ends(c)
      BY <2>7 DEF NoOrganization, HttpFailure, retry
    <3>2. tool = "codex" /\ rejected' # NoLogin => needsAction'
      BY <3>1 DEF RetryKept
    <3> QED BY <3>1, <3>2, RescheduledRetry DEF Ends, Reschedule
  <2> QED
    BY <1>11, <2>2, <2>3, <2>4, <2>5, <2>6, <2>7
       DEF Reply, UsageArrives, LocalUsageArrives, AccountArrives, BillingArrives
<1> QED
  BY <1>3, <1>4, <1>5, <1>6, <1>7, <1>8, <1>9, <1>10, <1>11 DEF Next, Step

(* Who starts a sync asks the retry state, or Copilot's timer was set for  *)
(* it, or the login is another one.                                        *)
LEMMA AutomaticAllowed ==
  ASSUME AutomaticSync, SyncInv, TimerInv, RetryKept, UNCHANGED login,
         tool = "copilot" => armed /\ now >= due
  PROVE  AllowedStart /\ RefusedWaits
<1>1. CASE tool = "claude"
  <2>1. CASE enabled /\ autoSync /\ CanAutoSync
    BY <1>1, <2>1 DEF AutomaticSync, AutomaticClaude, CanAutoSync, AllowedStart, RefusedWaits,
                      BrowserSync, Begins
  <2>2. CASE ~(enabled /\ autoSync /\ CanAutoSync)
    BY <1>1, <2>2 DEF AutomaticSync, AutomaticClaude, NothingStarts, AllowedStart, RefusedWaits
  <2> QED BY <2>1, <2>2
<1>2. CASE tool = "codex"
  <2>1. CASE enabled /\ ~syncing /\ login["file"] \notin {NoLogin, seen}
    BY <1>2, <2>1 DEF AutomaticSync, AutomaticCodex, AllowedStart, RefusedWaits, Begins
  <2>2. CASE /\ ~(enabled /\ ~syncing /\ login["file"] \notin {NoLogin, seen})
             /\ enabled /\ CanAutoSync
    <3>1. StartCodex(NoLogin)
      BY <1>2, <2>2 DEF AutomaticSync, AutomaticCodex
    <3>2. ~needsAction /\ rejected = NoLogin
      BY <1>2, <2>2 DEF CanAutoSync, RetryKept
    <3>3. login["file"] # rejected \/ calls' = calls
      BY <3>1, <3>2 DEF StartCodex, NotLoggedIn
    <3>4. AllowedStart
      BY <2>2 DEF CanAutoSync, AllowedStart
    <3> QED BY <3>1, <3>3, <3>4 DEF StartCodex, Begins, NotLoggedIn, RefusedWaits
  <2>3. CASE /\ ~(enabled /\ ~syncing /\ login["file"] \notin {NoLogin, seen})
             /\ ~(enabled /\ CanAutoSync)
    BY <1>2, <2>3 DEF AutomaticSync, AutomaticCodex, NothingStarts, AllowedStart, RefusedWaits
  <2> QED BY <2>1, <2>2, <2>3
<1>3. CASE tool = "copilot"
  <2>1. CASE due # Never
    <3>1. ~needsAction /\ now >= retryAfter
      BY <1>3, <2>1 DEF RetryKept, TimerInv, TimeTypes, DueTypes, Never
    <3> QED BY <1>3, <3>1 DEF AutomaticSync, AutomaticCopilot, NothingStarts, Begins,
                              AllowedStart, RefusedWaits
  <2>2. CASE due = Never
    BY <1>3, <2>2 DEF RetryKept
  <2> QED BY <2>1, <2>2
<1> QED BY <1>1, <1>2, <1>3, SyncAssumption DEF SyncInv, SyncTypes

LEMMA StepAllowed ==
  ASSUME SyncInv, TimerInv, RetryKept, [Next]_vars
  PROVE  [AllowedStart /\ RefusedWaits]_vars
<1> SUFFICES ASSUME Next PROVE AllowedStart /\ RefusedWaits
  OBVIOUS
<1> DEFINE Quiet == (syncing' => syncing) /\ calls' \subseteq calls
<1>1. ASSUME Quiet PROVE AllowedStart /\ RefusedWaits
  BY <1>1 DEF AllowedStart, RefusedWaits
<1>2. CASE TimerFires \/ Recover
  BY <1>2, AutomaticAllowed DEF TimerFires, Recover, config
<1>3. CASE ManualSync
  <2>1. CanAutoSync /\ BrowserSync /\ UNCHANGED <<login, rejected>> /\ tool # "copilot"
    BY <1>3 DEF ManualSync, config
  <2>2. AllowedStart
    BY <2>1 DEF CanAutoSync, AllowedStart
  <2>3. CASE tool = "claude"
    BY <2>1, <2>2, <2>3 DEF BrowserSync, Begins, RefusedWaits
  <2>4. CASE tool = "codex"
    <3>1. rejected = NoLogin
      BY <2>1, <2>4 DEF CanAutoSync, RetryKept
    <3> QED BY <2>1, <2>2, <2>4, <3>1 DEF BrowserSync, StartCodex, Begins, NotLoggedIn, RefusedWaits
  <2> QED BY <2>1, <2>2, <2>3, <2>4, SyncAssumption DEF SyncInv, SyncTypes
<1>4. CASE \E b \in BOOLEAN : SetEnabled(b) \/ SetSyncEnabled(b) \/ SetOnline(b)
  BY <1>1, <1>4 DEF SetEnabled, SetSyncEnabled, SetOnline, Cancels
<1>5. CASE \E place \in Places, l \in Logins : SignIn(place, l)
  BY <1>1, <1>5 DEF SignIn
<1>6. ASSUME NEW l \in Logins, SetAccount(l) PROVE AllowedStart /\ RefusedWaits
  <2>1. login' # login
    BY <1>6 DEF SetAccount, SyncInv, SyncTypes, Places
  <2> QED BY <1>6, <2>1 DEF SetAccount, AllowedStart, RefusedWaits
<1>7. CASE (\E s \in Sessions : Expire(s)) \/ Tick
  BY <1>1, <1>7 DEF Expire, Tick
<1>8. ASSUME NEW c \in calls, Reply(c) PROVE AllowedStart /\ RefusedWaits
  <2>1. CASE Dropped(c)
    BY <1>1, <2>1 DEF Dropped
  <2>2. CASE Ends(c)
    BY <1>1, <2>2 DEF Ends
  <2>3. CASE Continues(c)
    <3>1. [c EXCEPT !.stage = "usage"].stage = "usage"
      BY DEF SyncInv, SyncTypes, Call
    <3> QED BY <2>3, <3>1 DEF Continues, AllowedStart, RefusedWaits
  <2>4. ASSUME NEW declared \in Declared, Refused(c, declared), ~Ends(c)
        PROVE  AllowedStart /\ RefusedWaits
    <3>1. [c EXCEPT !.stage = "account", !.login = c.cookie, !.cookie = NoLogin].stage = "account"
      BY DEF SyncInv, SyncTypes, Call
    <3> QED BY <2>4, <3>1 DEF Refused, AllowedStart, RefusedWaits
  <2> QED
    BY <1>8, <2>1, <2>2, <2>3, <2>4
       DEF Reply, UsageArrives, LocalUsageArrives, AccountArrives, BillingArrives, Success,
           Fails, Unreadable, NoOrganization
<1> QED
  BY <1>2, <1>3, <1>4, <1>5, <1>6, <1>7, <1>8 DEF Next, Step

(* A sync starts only when the last failure allows it, and a refused local *)
(* login waits for another (subscriptiontoolbackend.cpp, canAutoSync;      *)
(* codexclimonitor.cpp, canAutoSyncFromLocalAuth), however timers,         *)
(* recoveries, the user, accounts and answers interleave.                  *)
THEOREM StartsWhenAllowed == Spec => SyncsWhenAllowed
<1>1. Init => RetryKept
  <2> SUFFICES ASSUME Init PROVE RetryKept
    OBVIOUS
  <2>1. needsAction = FALSE /\ rejected = NoLogin /\ (armed => due # Never)
    BY Zenon DEF Init
  <2>2. retryAfter = Never /\ due \in {Never, Interval}
    BY DEF Init
  <2>3. retryAfter <= due
    BY <2>2, SyncAssumption DEF Never
  <2> QED BY Zenon, <2>1, <2>3 DEF RetryKept
<1>2. SyncInv /\ TimerInv /\ RetryKept /\ [Next]_vars => RetryKept'
  BY StepRetry
<1>3. SyncInv /\ TimerInv /\ RetryKept /\ [Next]_vars => [AllowedStart /\ RefusedWaits]_vars
  BY StepAllowed
<1> QED
  BY Invariance, TimerInvariance, <1>1, <1>2, <1>3, PTL DEF Spec, SyncsWhenAllowed

-----------------------------------------------------------------------------
(* The refresh schedule of a provider *)

NoDate == -1
Ages == {NoDate} \cup 0 .. Schedule!Oldest
Left == {NoDate} \cup Nat

StateTypes ==
  /\ popup \in BOOLEAN /\ hasKey \in BOOLEAN /\ loading \in BOOLEAN
  /\ error \in {"none", "retryable", "user", "other"}
  /\ hold \in Nat
  /\ lastSuccess \in Ages /\ lastAttempt \in Ages

(* The deadline is of the moment, and its timer runs at least until then.  *)
TimerWaits ==
  /\ dueAt = Schedule!Due
  /\ refreshTimer \in Left
  /\ dueAt # NoDate => refreshTimer # NoDate /\ dueAt <= refreshTimer

ScheduleInv == StateTypes /\ TimerWaits

LEMMA LargestOfTwo ==
  ASSUME NEW a \in Int, NEW b \in Int
  PROVE  /\ Schedule!Max({a, b}) \in {a, b}
         /\ Schedule!Max({a, b}) >= a /\ Schedule!Max({a, b}) >= b
<1>1. \E x \in {a, b} : \A y \in {a, b} : x >= y
  BY SMT
<1> QED
  BY <1>1 DEF Schedule!Max

LEMMA LargestOfThree ==
  ASSUME NEW a \in Int, NEW b \in Int, NEW c \in Int
  PROVE  /\ Schedule!Max({a, b, c}) \in {a, b, c}
         /\ Schedule!Max({a, b, c}) >= a
         /\ Schedule!Max({a, b, c}) >= b
         /\ Schedule!Max({a, b, c}) >= c
<1>1. \E x \in {a, b, c} : \A y \in {a, b, c} : x >= y
  BY SMT
<1> QED
  BY <1>1 DEF Schedule!Max

(* No interval is longer than the age at which all are alike.              *)
LEMMA Intervals ==
  ASSUME popup \in BOOLEAN
  PROVE  /\ Schedule!Oldest \in Nat /\ Schedule!Scheduled \in Nat
         /\ Schedule!Scheduled <= Schedule!Oldest
<1> DEFINE longest == Schedule!Max({OpenInterval, ClosedInterval})
<1>1. /\ OpenInterval \in Nat /\ ClosedInterval \in Nat /\ Jitter \in Nat
  BY ScheduleAssumption
<1>2. longest \in Nat /\ OpenInterval <= longest /\ ClosedInterval <= longest
  BY <1>1, LargestOfTwo
<1> DEFINE interval == Schedule!EffectiveInterval(popup)
<1>3. interval \in Nat /\ interval <= longest
  BY <1>1, <1>2 DEF Schedule!EffectiveInterval
<1>4. Schedule!Backoff \in {1, 2}
  BY DEF Schedule!Backoff
<1> HIDE DEF longest, interval
<1>5. interval * Schedule!Backoff \in Nat /\ interval * Schedule!Backoff <= 2 * longest
  BY <1>2, <1>3, <1>4
<1>6. Schedule!Oldest = 2 * longest + Jitter
  BY DEF Schedule!Oldest, longest
<1>7. Schedule!Scheduled = interval * Schedule!Backoff + Jitter
  BY DEF Schedule!Scheduled, interval
<1> QED
  BY <1>1, <1>2, <1>5, <1>6, <1>7

Base == IF error = "none" THEN lastSuccess ELSE lastAttempt
Asks ==
  /\ hasKey /\ ~loading /\ net # "offline"
  /\ error \in {"none", "retryable"} /\ Base # NoDate

(* The deadline: there is one when the provider is to be asked again, and  *)
(* then Retry-After is over, and the interval since the base.              *)
DueFacts ==
  /\ Schedule!Due \in Left
  /\ ~Asks => Schedule!Due = NoDate
  /\ Asks =>
       /\ Schedule!Due \in {0, Schedule!Scheduled - Base, hold} /\ Schedule!Due >= 0
       /\ Schedule!Due >= Schedule!Scheduled - Base /\ Schedule!Due >= hold

LEMMA DueIs == StateTypes => DueFacts
<1> SUFFICES ASSUME StateTypes PROVE DueFacts
  OBVIOUS
<1>1. CASE ~Asks
  BY <1>1 DEF Asks, Base, NoDate, Schedule!Due, Schedule!Allowed, Schedule!Never,
              Schedule!NoDeadline, DueFacts, Left
<1>2. CASE Asks
  <2>1. Schedule!Scheduled \in Nat /\ Base \in Nat /\ hold \in Nat
    BY <1>2, Intervals DEF StateTypes, Asks, Base, Ages
  <2> DEFINE between == Schedule!Scheduled - Base
             largest == Schedule!Max({0, between, hold})
  <2>2. Schedule!Due = largest
    BY <1>2 DEF Asks, Base, NoDate, Schedule!Due, Schedule!Allowed, Schedule!Never
  <2>3. between \in Int
    BY <2>1
  <2>4. /\ largest \in {0, between, hold}
        /\ largest >= 0 /\ largest >= between /\ largest >= hold
    <3>1. 0 \in Int /\ hold \in Int
      BY <2>1
    <3> HIDE DEF between
    <3> QED
      BY ONLY <2>3, <3>1, LargestOfThree DEF largest
  <2> HIDE DEF between, largest
  <2>5. largest \in Nat
    BY <2>1, <2>3, <2>4
  <2> QED
    BY <1>2, <2>2, <2>4, <2>5 DEF between, DueFacts, Left
<1> QED
  BY <1>1, <1>2

LEMMA DueIsNext == StateTypes' => DueFacts'
BY DueIs, PTL

(* Whoever computes the deadline anew starts the timer if it changed.      *)
LEMMA UpdateWaits ==
  ASSUME ScheduleInv, StateTypes', Schedule!Update
  PROVE  ScheduleInv'
<1>1. dueAt' = Schedule!Due' /\ dueAt' \in Left
  BY DueIsNext DEF Schedule!Update, DueFacts
<1>2. TimerWaits'
  BY <1>1 DEF ScheduleInv, TimerWaits, Schedule!Update, Left, NoDate, Schedule!NoDeadline,
              Schedule!Stopped
<1> QED
  BY <1>2 DEF ScheduleInv

(* A refresh that begins takes the deadline and the timer away.            *)
LEMMA BeginWaits ==
  ASSUME StateTypes', loading', dueAt' = NoDate, refreshTimer' = NoDate
  PROVE  ScheduleInv'
<1>1. ~Asks'
  BY DEF Asks
<1>2. Schedule!Due' = NoDate
  BY <1>1, DueIsNext DEF DueFacts
<1> QED
  BY <1>2 DEF ScheduleInv, TimerWaits, Left

(* The state of the moment, and with it the deadline, stay as they are.    *)
LEMMA SameState ==
  ASSUME ScheduleInv,
         UNCHANGED <<hasKey, loading, error, hold, lastSuccess, lastAttempt, popup, net>>
  PROVE  StateTypes' /\ Schedule!Due' = Schedule!Due
<1>1. StateTypes'
  BY DEF ScheduleInv, StateTypes
<1>2. Schedule!Due' = Schedule!Due
  BY DEF Schedule!Due, Schedule!Scheduled, Schedule!Allowed, Schedule!Backoff,
         Schedule!EffectiveInterval
<1> QED
  BY <1>1, <1>2

(* As time passes the deadline comes nearer, until it is there.            *)
LEMMA TimeNears ==
  ASSUME ScheduleInv, Schedule!TimePasses, UNCHANGED <<popup, net, hasKey, loading, error>>
  PROVE  StateTypes' /\ dueAt' = Schedule!Due'
<1>1. /\ Schedule!Oldest \in Nat /\ Schedule!Scheduled \in Nat
      /\ Schedule!Scheduled <= Schedule!Oldest /\ Schedule!Scheduled' = Schedule!Scheduled
  BY Intervals DEF ScheduleInv, StateTypes, Schedule!Scheduled, Schedule!Backoff,
                   Schedule!EffectiveInterval
<1>2. /\ lastSuccess' \in Ages /\ lastAttempt' \in Ages /\ hold' \in Nat
  BY <1>1 DEF Schedule!TimePasses, ScheduleInv, StateTypes, Ages, NoDate, Schedule!Older,
              Schedule!Nearer, Schedule!Never
<1>3. StateTypes'
  BY <1>2 DEF ScheduleInv, StateTypes
<1>4. DueFacts /\ DueFacts' /\ dueAt = Schedule!Due
  BY <1>3, DueIs, DueIsNext DEF ScheduleInv, TimerWaits
<1>5. /\ Base \in Ages /\ hold \in Nat
      /\ Base' = Schedule!Older(Base) /\ hold' = Schedule!Nearer(hold)
      /\ dueAt' = Schedule!Nearer(dueAt)
  BY DEF Base, ScheduleInv, StateTypes, Schedule!TimePasses
<1>6. Asks' <=> Asks
  BY <1>1, <1>5 DEF Asks, Ages, NoDate, Schedule!Older, Schedule!Never
<1>7. CASE ~Asks
  BY <1>3, <1>4, <1>5, <1>6, <1>7 DEF DueFacts, NoDate, Schedule!Nearer
<1>8. CASE Asks
  <2> DEFINE before == Schedule!Due after == Schedule!Due'
             span == Schedule!Scheduled oldest == Schedule!Oldest
  <2>1. /\ before \in {0, span - Base, hold} /\ before >= 0
        /\ before >= span - Base /\ before >= hold
    BY <1>4, <1>8 DEF DueFacts
  <2>2. /\ after \in {0, span - Base', hold'} /\ after >= 0
        /\ after >= span - Base' /\ after >= hold'
    BY <1>1, <1>4, <1>6, <1>8 DEF DueFacts
  <2>3. /\ Base \in 0 .. oldest /\ span \in Nat /\ oldest \in Nat /\ span <= oldest
        /\ Base' = IF Base = oldest THEN Base ELSE Base + 1
        /\ hold' = IF hold <= 0 THEN hold ELSE hold - 1
        /\ dueAt' = IF before <= 0 THEN before ELSE before - 1
    BY <1>1, <1>4, <1>5, <1>8
       DEF Asks, Ages, NoDate, Schedule!Older, Schedule!Nearer, Schedule!Never
  <2> HIDE DEF before, after, span, oldest
  <2>4. dueAt' = after
    BY <1>5, <2>1, <2>2, <2>3
  <2> QED
    BY <1>3, <2>4 DEF after
<1> QED
  BY <1>7, <1>8

LEMMA TickWaits ==
  ASSUME ScheduleInv, Schedule!Tick \/ Schedule!Sleep
  PROVE  ScheduleInv'
<1>1. StateTypes' /\ dueAt' = Schedule!Due'
  BY TimeNears DEF Schedule!Tick, Schedule!Sleep, Schedule!network
<1>2. dueAt' = Schedule!Nearer(dueAt)
      /\ refreshTimer' \in {refreshTimer, Schedule!Nearer(refreshTimer)}
      /\ (refreshTimer' # refreshTimer => refreshTimer # 0)
  BY DEF Schedule!Tick, Schedule!Sleep, Schedule!TimePasses
<1>3. /\ refreshTimer \in Left /\ dueAt \in Left
      /\ dueAt # NoDate => refreshTimer # NoDate /\ dueAt <= refreshTimer
  BY DueIs DEF ScheduleInv, TimerWaits, DueFacts
<1>4. TimerWaits'
  BY <1>1, <1>2, <1>3 DEF TimerWaits, Left, NoDate, Schedule!Nearer
<1> QED
  BY <1>1, <1>4 DEF ScheduleInv

(* A refresh that begins.                                                  *)
LEMMA BeginKeeps ==
  ASSUME ScheduleInv, Schedule!Begin, popup' \in BOOLEAN
  PROVE  ScheduleInv'
<1>1. /\ loading' = TRUE /\ lastAttempt' = 0 /\ error' = "none" /\ hold' = 0
      /\ dueAt' = NoDate /\ refreshTimer' = NoDate
      /\ UNCHANGED <<hasKey, lastSuccess>>
  BY DEF Schedule!Begin, Schedule!NoDeadline, Schedule!Stopped, NoDate
<1>2. Schedule!Oldest' = Schedule!Oldest /\ Schedule!Oldest \in Nat
  BY Intervals DEF Schedule!Oldest, Schedule!Max, ScheduleInv, StateTypes
<1>3. StateTypes'
  BY <1>1, <1>2 DEF ScheduleInv, StateTypes, Ages
<1> QED
  BY <1>1, <1>3, BeginWaits

(* The timer fires when the deadline is there, and the refresh it asks for *)
(* is accepted then.                                                       *)
LEMMA TimerFiresKeeps ==
  ASSUME ScheduleInv, Schedule!TimerFires
  PROVE  ScheduleInv'
<1>1. UNCHANGED <<popup, net, seenOffline, recovery>> /\ popup \in BOOLEAN
  BY DEF Schedule!TimerFires, Schedule!network, ScheduleInv, StateTypes
<1>2. CASE Schedule!MayBegin(TRUE, popup)
  BY <1>1, <1>2, BeginKeeps DEF Schedule!TimerFires
<1>3. CASE ~Schedule!MayBegin(TRUE, popup)
  <2>1. /\ UNCHANGED <<hasKey, loading, error, hold, lastSuccess, lastAttempt>>
        /\ refreshTimer = 0 /\ refreshTimer' = NoDate /\ dueAt' = dueAt
    BY <1>3 DEF Schedule!TimerFires, Schedule!backend, Schedule!Stopped, NoDate
  <2>2. DueFacts /\ dueAt = Schedule!Due /\ hold \in Nat
    BY DueIs DEF ScheduleInv, StateTypes, TimerWaits
  <2>3. ASSUME Asks PROVE FALSE
    <3>1. hold = 0
      BY <2>1, <2>2, <2>3 DEF DueFacts, ScheduleInv, TimerWaits, Left, NoDate
    <3> QED
      BY <1>3, <2>3, <3>1 DEF Asks, Schedule!MayBegin, Schedule!Allowed, Schedule!Accepts
  <2>4. dueAt = NoDate
    BY <2>2, <2>3 DEF DueFacts
  <2>5. StateTypes' /\ Schedule!Due' = Schedule!Due
    BY <1>1, <2>1, SameState
  <2> QED
    BY <2>1, <2>2, <2>4, <2>5 DEF ScheduleInv, TimerWaits, Left
<1> QED
  BY <1>2, <1>3

(* The other reasons for a refresh begin one, compute the deadline anew,   *)
(* or leave all as it is.                                                  *)
LEMMA ReasonsKeep ==
  ASSUME ScheduleInv,
         \/ Schedule!PopupOpens \/ Schedule!PopupCloses
         \/ Schedule!RefreshAll \/ Schedule!RecoveryFires
  PROVE  ScheduleInv'
<1>0. popup' \in BOOLEAN
  BY DEF Schedule!PopupOpens, Schedule!PopupCloses, Schedule!RefreshAll,
         Schedule!RecoveryFires, ScheduleInv, StateTypes
<1>1. CASE Schedule!Begin
  BY <1>0, <1>1, BeginKeeps
<1>2. CASE ~Schedule!Begin /\ (Schedule!PopupOpens \/ Schedule!PopupCloses)
  <2>1. Schedule!Update /\ UNCHANGED <<hasKey, loading, error, hold, lastSuccess, lastAttempt>>
    BY <1>2 DEF Schedule!PopupOpens, Schedule!PopupCloses, Schedule!backend
  <2>2. StateTypes'
    BY <1>0, <2>1 DEF ScheduleInv, StateTypes, Ages, Schedule!Oldest, Schedule!Max
  <2> QED
    BY <2>1, <2>2, UpdateWaits
<1>3. CASE ~Schedule!Begin /\ Schedule!RecoveryFires
  <2>1. UNCHANGED <<hasKey, loading, error, hold, lastSuccess, lastAttempt, popup, net,
                    dueAt, refreshTimer>>
    BY <1>3 DEF Schedule!RecoveryFires, Schedule!backend
  <2>2. StateTypes' /\ Schedule!Due' = Schedule!Due
    BY <2>1, SameState
  <2> QED
    BY <2>1, <2>2 DEF ScheduleInv, TimerWaits
<1> QED
  BY <1>1, <1>2, <1>3 DEF Schedule!RefreshAll

LEMMA KeysKeep ==
  ASSUME ScheduleInv, Schedule!StoreKey \/ Schedule!RemoveKey
  PROVE  ScheduleInv'
<1>1. /\ UNCHANGED <<popup, lastSuccess>> /\ hasKey' \in BOOLEAN /\ loading' \in BOOLEAN
      /\ error' \in {error, "none"} /\ hold' \in {hold, 0} /\ lastAttempt' \in {lastAttempt, 0}
  BY DEF Schedule!StoreKey, Schedule!RemoveKey
<1>2. Schedule!Oldest' = Schedule!Oldest /\ Schedule!Oldest \in Nat
  BY Intervals DEF Schedule!Oldest, Schedule!Max, ScheduleInv, StateTypes
<1>3. StateTypes'
  BY <1>1, <1>2 DEF ScheduleInv, StateTypes, Ages
<1>4. CASE Schedule!Update
  BY <1>3, <1>4, UpdateWaits
<1>5. CASE ~Schedule!Update
  <2>1. loading' = TRUE /\ dueAt' = NoDate /\ refreshTimer' = NoDate
    BY <1>5 DEF Schedule!StoreKey, Schedule!RemoveKey, Schedule!NoDeadline, Schedule!Stopped,
                NoDate
  <2> QED
    BY <1>3, <2>1, BeginWaits
<1> QED
  BY <1>4, <1>5

LEMMA AnswersKeep ==
  ASSUME ScheduleInv, Schedule!Answers
  PROVE  ScheduleInv'
<1>1. PICK e \in {"none", "user", "retryable", "other"}, wait \in Nat :
        Schedule!Answer(e, wait)
  BY ScheduleAssumption DEF Schedule!Answers
<1>2. /\ error' = e /\ hold' = wait /\ lastSuccess' = 0 /\ loading' = FALSE
      /\ UNCHANGED <<popup, hasKey, lastAttempt>> /\ Schedule!Update
  BY <1>1 DEF Schedule!Answer
<1>3. Schedule!Oldest' = Schedule!Oldest /\ Schedule!Oldest \in Nat
  BY Intervals DEF Schedule!Oldest, Schedule!Max, ScheduleInv, StateTypes
<1>4. StateTypes'
  <2>1. 0 \in Ages' /\ lastAttempt \in Ages'
    BY <1>3 DEF ScheduleInv, StateTypes, Ages, NoDate
  <2> QED
    BY <1>1, <1>2, <2>1 DEF ScheduleInv, StateTypes
<1> QED
  BY <1>2, <1>4, UpdateWaits

LEMMA NetChangesKeep ==
  ASSUME ScheduleInv, NEW n, Schedule!NetChanges(n)
  PROVE  ScheduleInv'
<1>1. UNCHANGED <<popup, hasKey, loading, error, hold, lastSuccess, lastAttempt>>
      /\ Schedule!Update
  BY Zenon DEF Schedule!NetChanges, Schedule!backend
<1>2. StateTypes'
  BY <1>1 DEF ScheduleInv, StateTypes, Ages, Schedule!Oldest, Schedule!Max
<1> QED
  BY <1>1, <1>2, UpdateWaits

LEMMA ScheduleStarts == Schedule!Init => ScheduleInv
<1> SUFFICES ASSUME Schedule!Init PROVE ScheduleInv
  OBVIOUS
<1>1. /\ popup = FALSE /\ hasKey \in BOOLEAN /\ loading \in BOOLEAN /\ error = "none"
      /\ hold = 0 /\ lastSuccess = NoDate /\ lastAttempt \in {0, NoDate}
      /\ dueAt = NoDate /\ refreshTimer = NoDate
  BY DEF Schedule!Init, Schedule!Never, Schedule!NoDeadline, Schedule!Stopped, NoDate
<1>2. Schedule!Oldest \in Nat
  BY <1>1, Intervals
<1>3. StateTypes
  <2>1. 0 \in Ages /\ NoDate \in Ages
    BY <1>2 DEF Ages, NoDate
  <2> QED
    BY <1>1, <2>1 DEF StateTypes
<1>4. ~Asks
  BY <1>1 DEF Asks, Base
<1> QED
  BY <1>1, <1>3, <1>4, DueIs DEF ScheduleInv, TimerWaits, DueFacts, Left

LEMMA ScheduleKeeps == ScheduleInv /\ [Schedule!Next]_(Schedule!vars) => ScheduleInv'
<1> SUFFICES ASSUME ScheduleInv, [Schedule!Next]_(Schedule!vars) PROVE ScheduleInv'
  OBVIOUS
<1>1. CASE Schedule!TimerFires
  BY <1>1, TimerFiresKeeps
<1>2. CASE \/ Schedule!PopupOpens \/ Schedule!PopupCloses
           \/ Schedule!RefreshAll \/ Schedule!RecoveryFires
  BY <1>2, ReasonsKeep
<1>3. CASE Schedule!StoreKey \/ Schedule!RemoveKey
  BY <1>3, KeysKeep
<1>4. CASE Schedule!Answers
  BY <1>4, AnswersKeep
<1>5. CASE \E n \in {"online", "offline", "unknown"} : Schedule!NetChanges(n)
  BY <1>5, NetChangesKeep
<1>6. CASE Schedule!Tick \/ Schedule!Sleep
  BY <1>6, TickWaits
<1>7. CASE UNCHANGED Schedule!vars
  <2>1. UNCHANGED <<hasKey, loading, error, hold, lastSuccess, lastAttempt, popup, net,
                    dueAt, refreshTimer>>
    BY <1>7 DEF Schedule!vars, Schedule!network, Schedule!backend
  <2>2. StateTypes' /\ Schedule!Due' = Schedule!Due
    BY <2>1, SameState
  <2> QED
    BY <2>1, <2>2 DEF ScheduleInv, TimerWaits
<1> QED
  BY <1>1, <1>2, <1>3, <1>4, <1>5, <1>6, <1>7 DEF Schedule!Next

(* RefreshScheduler.qml arms one single-shot timer per provider, and       *)
(* nobody arms it again once it has fired.  However the popup, the         *)
(* network, the key, the answers, sleep and the timer itself interleave,   *)
(* and for all intervals, the deadline shown is the one of the moment, and *)
(* its timer runs: it never fires before the refresh would be accepted.    *)
THEOREM KeepsItsDeadline == Schedule!Spec => []DeadlineIsCurrent
<1>1. ScheduleInv => DeadlineIsCurrent
  BY DEF ScheduleInv, TimerWaits, DeadlineIsCurrent, Schedule!DeadlineIsCurrent,
         Schedule!NoDeadline, Schedule!Stopped, NoDate
<1> QED
  BY <1>1, ScheduleStarts, ScheduleKeeps, PTL DEF Schedule!Spec

-----------------------------------------------------------------------------
(* The periods of usage *)

(* The least of a set of numbers is in it.                                 *)
LEMMA MinIsLeast ==
  ASSUME NEW T, T \subseteq Nat, T # {}
  PROVE  Monthly!Min(T) \in T /\ \A y \in T : Monthly!Min(T) <= y
<1>1. \E x \in T : \A y \in T : x <= y
  BY Least
<1> QED BY <1>1 DEF Monthly!Min

LastMonth == Len(MonthLengths)

LEMMA Months ==
  /\ LastMonth \in Nat \ {0} /\ Monthly!Months = 1 .. LastMonth
  /\ \A m \in 1 .. LastMonth : MonthLengths[m] \in Nat \ {0}
  BY UsageAssumption DEF LastMonth, Monthly!Months

Sums(n, f) == f[0] = 0 /\ \A m \in 1 .. n : f[m] = f[m - 1] + MonthLengths[m]

(* The sum over the months exists ...                                      *)
LEMMA SumExists == \E f \in [0 .. LastMonth -> Nat] : Sums(LastMonth, f)
<1> DEFINE T == {n \in 0 .. LastMonth : ~ \E f \in [0 .. n -> Nat] : Sums(n, f)}
<1>0. T \subseteq Nat
  BY Months
<1>1. SUFFICES ASSUME T # {} PROVE FALSE
  BY SMTT(40), Months
<1>2. PICK x \in T : \A y \in T : x <= y
  <2> HIDE DEF T
  <2> QED BY <1>0, <1>1, Least
<1>3. CASE x = 0
  <2> DEFINE f == [m \in 0 .. 0 |-> 0]
  <2>1. f \in [0 .. 0 -> Nat] /\ Sums(0, f)
    BY DEF Sums
  <2> QED BY <1>2, <1>3, <2>1
<1>4. CASE x # 0
  <2>1. x \in 1 .. LastMonth /\ x - 1 \in 0 .. LastMonth
    BY <1>4, Months
  <2>2. x - 1 \notin T
    BY <1>2, <2>1
  <2>3. PICK f \in [0 .. (x - 1) -> Nat] : Sums(x - 1, f)
    BY <2>1, <2>2
  <2> DEFINE g == [m \in 0 .. x |-> IF m = x THEN f[x - 1] + MonthLengths[x] ELSE f[m]]
  <2>4. g \in [0 .. x -> Nat]
    BY <2>1, <2>3, Months
  <2>5. Sums(x, g)
    BY <2>1, <2>3 DEF Sums
  <2> QED BY <2>4, <2>5
<1> QED BY <1>3, <1>4

(* ... so that the recursive definition has the value it says, ...         *)
LEMMA DaysBeforeIs ==
  Monthly!DaysBefore =
    [m \in 0 .. LastMonth |->
       IF m = 0 THEN 0 ELSE Monthly!DaysBefore[m - 1] + MonthLengths[m]]
<1>1. PICK f \in [0 .. LastMonth -> Nat] : Sums(LastMonth, f)
  BY SumExists
<1>2. f = [m \in 0 .. LastMonth |-> IF m = 0 THEN 0 ELSE f[m - 1] + MonthLengths[m]]
  BY <1>1, Months DEF Sums
<1> QED BY <1>2 DEF Monthly!DaysBefore, LastMonth

Days(m) == Monthly!DaysBefore[m]

LEMMA DaysOf ==
  Days(0) = 0 /\ \A m \in 1 .. LastMonth : Days(m) = Days(m - 1) + MonthLengths[m]
  BY DaysBeforeIs, Months DEF Days

LEMMA DaysType == \A m \in 0 .. LastMonth : Days(m) \in Nat
<1> DEFINE T == {m \in 0 .. LastMonth : Days(m) \notin Nat}
<1>0. T \subseteq Nat
  BY Months
<1>1. SUFFICES ASSUME T # {} PROVE FALSE
  BY Months
<1>2. PICK x \in T : \A y \in T : x <= y
  <2> HIDE DEF T
  <2> QED BY <1>0, <1>1, Least
<1>3. x # 0
  BY DaysOf
<1>4. x - 1 \in 0 .. LastMonth /\ x - 1 \notin T /\ x \in 1 .. LastMonth
  BY <1>2, <1>3, Months
<1>5. Days(x) = Days(x - 1) + MonthLengths[x] /\ MonthLengths[x] \in Nat
  BY <1>4, DaysOf, Months
<1>6. Days(x - 1) \in Nat
  BY <1>4
<1>7. Days(x) \notin Nat
  OBVIOUS
<1> QED BY <1>5, <1>6, <1>7

(* ... and every month begins after those before it.                       *)
LEMMA DaysGrow ==
  \A b \in 0 .. LastMonth : \A a \in 0 .. b : Days(a) <= Days(b)
<1> DEFINE T == {b \in 0 .. LastMonth : \E a \in 0 .. b : ~ (Days(a) <= Days(b))}
<1>0. T \subseteq Nat
  BY Months
<1>1. SUFFICES ASSUME T # {} PROVE FALSE
  BY Months
<1>2. PICK x \in T : \A y \in T : x <= y
  <2> HIDE DEF T
  <2> QED BY <1>0, <1>1, Least
<1>3. PICK a \in 0 .. x : ~ (Days(a) <= Days(x))
  OBVIOUS
<1>4. x \in 0 .. LastMonth /\ a \in 0 .. LastMonth /\ Days(a) \in Nat /\ Days(x) \in Nat
  BY DaysType, Months
<1>5. a # x
  BY <1>3, <1>4
<1>6. x - 1 \in 0 .. LastMonth /\ x - 1 \notin T /\ x \in 1 .. LastMonth /\ a \in 0 .. (x - 1)
  BY <1>2, <1>4, <1>5, Months
<1>7. Days(a) <= Days(x - 1) /\ Days(x - 1) \in Nat
  BY <1>6, DaysType
<1>8. Days(x) = Days(x - 1) + MonthLengths[x] /\ MonthLengths[x] \in Nat
  BY <1>6, DaysOf, Months
<1> QED BY <1>3, <1>4, <1>7, <1>8

(* The days of a moment, and the moments of a day.                         *)
LEMMA DayOf ==
  ASSUME NEW t \in Nat, NEW d \in Nat
  PROVE  /\ Monthly!Day(t) \in Nat
         /\ t < d * DayLength => Monthly!Day(t) < d
         /\ d * DayLength \in Nat /\ Monthly!Day(d * DayLength) = d
<1> DEFINE q == t \div DayLength
           r == t % DayLength
<1>1. DayLength \in Nat \ {0}
  BY UsageAssumption
<1>2. q \in Nat /\ r \in Nat /\ t = DayLength * q + r
  BY <1>1, SMT
<1>3. d * DayLength \in Nat /\ (d * DayLength) \div DayLength = d
  BY <1>1, SMT
<1>4. ASSUME t < d * DayLength PROVE q < d
  <2> HIDE DEF q, r
  <2>1. SUFFICES ASSUME d <= q PROVE FALSE
    BY <1>2
  <2>2. PICK k \in Nat : q = d + k
    BY <1>2, <2>1
  <2>3. DayLength * q = d * DayLength + DayLength * k /\ DayLength * k >= 0
    BY <1>1, <2>2, SMT
  <2> QED BY <1>1, <1>2, <1>3, <1>4, <2>3
<1> QED BY <1>2, <1>3, <1>4 DEF Monthly!Day

LEMMA LaterDay ==
  ASSUME NEW a \in Nat, NEW b \in Nat, a <= b
  PROVE  a * DayLength <= b * DayLength
<1>1. DayLength \in Nat
  BY UsageAssumption
<1>2. PICK k \in Nat : b = a + k
  OBVIOUS
<1> QED BY <1>1, <1>2, SMT

(* The reset day is a day of every month.                                  *)
LEMMA ResetDayOf ==
  ASSUME NEW d \in Monthly!ResetDays
  PROVE  d \in Nat \ {0} /\ \A m \in 1 .. LastMonth : d <= MonthLengths[m]
<1> DEFINE L == {MonthLengths[m] : m \in Monthly!Months}
<1>1. L \subseteq Nat /\ L # {}
  BY Months
<1>2. Monthly!Min(L) \in Nat /\ \A y \in L : Monthly!Min(L) <= y
  <2> HIDE DEF L
  <2> QED BY <1>1, MinIsLeast
<1>3. d \in 1 .. Monthly!Min(L)
  BY DEF Monthly!ResetDays
<1>4. d \in Nat \ {0} /\ d <= Monthly!Min(L)
  BY <1>2, <1>3
<1>5. ASSUME NEW m \in 1 .. LastMonth PROVE d <= MonthLengths[m]
  <2>1. MonthLengths[m] \in L /\ MonthLengths[m] \in Nat
    BY Months
  <2> HIDE DEF L
  <2> QED BY <1>2, <1>4, <2>1
<1> QED BY <1>4, <1>5

(* Every moment that is modelled falls into a month before the last.       *)
LEMMA MonthOfMoment ==
  ASSUME NEW t \in 0 .. CalendarTime
  PROVE  LET m == Monthly!MonthOf(t) IN
           /\ m \in 1 .. (LastMonth - 1)
           /\ Days(m - 1) <= Monthly!Day(t) /\ Monthly!Day(t) < Days(m)
<1> DEFINE d == Monthly!Day(t)
           m == Monthly!MonthOf(t)
<1>1. LastMonth - 1 \in 0 .. LastMonth /\ Days(LastMonth - 1) \in Nat
  BY Months, DaysType
<1>2. CalendarTime < Days(LastMonth - 1) * DayLength
  <2>1. CalendarTime < (Days(LastMonth - 1) + 1 - 1) * DayLength
    BY UsageAssumption DEF Monthly!Midnight, Days, LastMonth
  <2> QED BY <1>1, <2>1
<1>3. d \in Nat /\ d < Days(LastMonth - 1)
  <2>1. t \in Nat /\ t < Days(LastMonth - 1) * DayLength
    <3>1. Days(LastMonth - 1) * DayLength \in Nat
      BY <1>1, DayOf
    <3> QED BY <1>2, <3>1, UsageAssumption
  <2> QED BY <1>1, <2>1, DayOf
<1> HIDE DEF d
<1>4. \E k \in 1 .. LastMonth : Days(k - 1) <= d /\ d < Days(k)
  <2> DEFINE T == {k \in 0 .. LastMonth : d < Days(k)}
  <2>1. T \subseteq Nat /\ LastMonth - 1 \in T
    BY <1>1, <1>3, Months
  <2>2. PICK k \in T : \A y \in T : k <= y
    <3> HIDE DEF T
    <3> QED BY <2>1, Least
  <2>3. k # 0
    BY <1>3, DaysOf
  <2>4. k - 1 \in 0 .. LastMonth /\ k - 1 \notin T /\ k \in 1 .. LastMonth
    BY <2>2, <2>3, Months
  <2>5. Days(k - 1) \in Nat /\ ~ (d < Days(k - 1))
    BY <2>4, DaysType
  <2> QED BY <1>3, <2>4, <2>5
<1>5. m \in 1 .. LastMonth /\ Days(m - 1) <= d /\ d < Days(m)
  <2>1. m = CHOOSE k \in 1 .. LastMonth : d \in Days(k - 1) .. (Days(k) - 1)
    BY Months DEF Monthly!MonthOf, Days, d
  <2>2. \E k \in 1 .. LastMonth : d \in Days(k - 1) .. (Days(k) - 1)
    <3>1. PICK k \in 1 .. LastMonth : Days(k - 1) <= d /\ d < Days(k)
      BY <1>4
    <3>2. Days(k - 1) \in Nat /\ Days(k) \in Nat
      BY <3>1, DaysType, Months
    <3> QED BY <1>3, <3>1, <3>2
  <2>3. m \in 1 .. LastMonth /\ d \in Days(m - 1) .. (Days(m) - 1)
    BY <2>1, <2>2
  <2>4. Days(m - 1) \in Nat /\ Days(m) \in Nat
    BY <2>3, DaysType, Months
  <2> QED BY <1>3, <2>3, <2>4
<1> HIDE DEF m
<1>6. m # LastMonth
  BY <1>1, <1>3, <1>5
<1>7. m \in 1 .. (LastMonth - 1)
  BY <1>5, <1>6, Months
<1> QED BY <1>5, <1>7 DEF m, d

(* calculatePeriodEnd finds the first reset day after the day of t: a      *)
(* month that is over has it before, and one to come after.                *)
LEMMA EndIsNextReset ==
  ASSUME NEW t \in 0 .. CalendarTime, mResetDay \in Monthly!ResetDays
  PROVE  Monthly!PeriodEnd(t) =
           Monthly!Min({u \in {Monthly!Midnight(m, mResetDay) : m \in Monthly!Months} :
                          Monthly!Day(u) > Monthly!Day(t)})
<1> DEFINE d == Monthly!Day(t)
           r == mResetDay
           m == Monthly!MonthOf(t)
           S == {u \in {Monthly!Midnight(k, r) : k \in Monthly!Months} : Monthly!Day(u) > d}
           k == m + (IF Monthly!DayOfMonth(t) < r THEN 0 ELSE 1)
           First(j) == Days(j - 1) + r - 1
<1>1. d \in Nat
  BY DayOf
<1>2. m \in 1 .. (LastMonth - 1) /\ Days(m - 1) <= d /\ d < Days(m)
  BY MonthOfMoment
<1>3. r \in Nat \ {0} /\ \A j \in 1 .. LastMonth : r <= MonthLengths[j]
  BY ResetDayOf
<1>4. Monthly!DayOfMonth(t) = d - Days(m - 1) + 1
  BY DEF Monthly!DayOfMonth, Days
<1>5. Monthly!PeriodEnd(t) = Monthly!Midnight(k, r)
  BY DEF Monthly!PeriodEnd
<1>6. \A j : Monthly!Midnight(j, r) = First(j) * DayLength
  BY DEF Monthly!Midnight, Days
<1> HIDE DEF d, r, m
<1>7. ASSUME NEW j \in 1 .. LastMonth
      PROVE  /\ Days(j - 1) \in Nat /\ First(j) \in Nat /\ Days(j) \in Nat
             /\ Days(j) = Days(j - 1) + MonthLengths[j] /\ MonthLengths[j] \in Nat
             /\ First(j) < Days(j)
  <2>1. j - 1 \in 0 .. LastMonth /\ j \in 0 .. LastMonth
    BY Months
  <2>2. Days(j - 1) \in Nat /\ Days(j) \in Nat
    BY <2>1, DaysType
  <2>3. Days(j) = Days(j - 1) + MonthLengths[j] /\ MonthLengths[j] \in Nat
    BY DaysOf, Months
  <2> QED BY <1>3, <2>2, <2>3
<1>8. k \in 1 .. LastMonth
  BY <1>2, Months
<1>9. First(k) > d
  <2>1. Days(m - 1) \in Nat /\ Days(m) \in Nat /\ m \in 1 .. LastMonth
    BY <1>2, <1>7, Months
  <2>2. CASE Monthly!DayOfMonth(t) < r
    BY <1>1, <1>3, <1>4, <2>1, <2>2
  <2>3. CASE ~ (Monthly!DayOfMonth(t) < r)
    <3>1. First(k) = Days(m) + r - 1
      BY <1>2, <2>3
    <3> QED BY <1>1, <1>2, <1>3, <2>1, <3>1
  <2> QED BY <2>2, <2>3
<1>10. ASSUME NEW j \in 1 .. LastMonth, First(j) > d
       PROVE  First(k) <= First(j)
  <2>1. j >= m
    <3>1. SUFFICES ASSUME j < m PROVE FALSE
      BY <1>2
    <3>2. m - 1 \in 0 .. LastMonth /\ j \in 0 .. (m - 1) /\ m \in 1 .. LastMonth
      BY <1>2, <3>1, Months
    <3>3. Days(j) <= Days(m - 1)
      BY <3>2, DaysGrow
    <3>4. Days(m - 1) \in Nat
      BY <1>7, <3>2
    <3>5. First(j) < Days(j) /\ First(j) \in Nat /\ Days(j) \in Nat
      BY <1>7
    <3> HIDE DEF First
    <3> QED BY <1>1, <1>2, <1>10, <3>3, <3>4, <3>5
  <2>2. j >= k
    <3>1. CASE Monthly!DayOfMonth(t) < r
      BY <1>2, <2>1, <3>1
    <3>2. CASE ~ (Monthly!DayOfMonth(t) < r)
      <4>1. j # m
        <5>1. m \in 1 .. LastMonth /\ Days(m - 1) \in Nat
          BY <1>2, <1>7, Months
        <5> QED BY <1>1, <1>3, <1>4, <1>10, <3>2, <5>1
      <4> QED BY <1>2, <2>1, <3>2, <4>1
    <3> QED BY <3>1, <3>2
  <2>3. k - 1 \in 0 .. (j - 1) /\ j - 1 \in 0 .. LastMonth
    BY <1>8, <2>2, Months
  <2>4. Days(k - 1) <= Days(j - 1)
    BY <2>3, DaysGrow
  <2>5. Days(k - 1) \in Nat /\ Days(j - 1) \in Nat
    BY <1>7, <1>8
  <2> QED BY <1>3, <2>4, <2>5
<1> HIDE DEF k, First
<1> DEFINE end == First(k) * DayLength
<1>11. end \in S /\ S \subseteq Nat
  <2>1. \A j \in 1 .. LastMonth :
          First(j) * DayLength \in Nat /\ Monthly!Day(First(j) * DayLength) = First(j)
    BY <1>7, DayOf
  <2> QED BY <1>6, <1>8, <1>9, <2>1, Months
<1>12. ASSUME NEW u \in S PROVE end <= u
  <2>1. PICK j \in 1 .. LastMonth : u = First(j) * DayLength
    BY <1>6, Months
  <2>2. First(j) \in Nat /\ First(k) \in Nat
    BY <1>7, <1>8
  <2>3. First(j) > d
    BY <2>1, <2>2, DayOf
  <2> QED BY <1>10, <2>1, <2>2, <2>3, LaterDay
<1> HIDE DEF end, S
<1>13. Monthly!Min(S) \in S /\ \A u \in S : Monthly!Min(S) <= u
  BY <1>11, MinIsLeast
<1>14. Monthly!Min(S) = end
  <2> DEFINE least == Monthly!Min(S)
  <2>1. least \in Nat /\ end \in Nat /\ end <= least /\ least <= end
    BY <1>11, <1>12, <1>13
  <2> HIDE DEF least
  <2>2. least = end
    BY <2>1
  <2> QED BY <2>2 DEF least
<1> QED BY <1>5, <1>6, <1>14 DEF end, S, d, r

(* The counter of a monthly plan.                                          *)
Counts(c) == c \in 0 .. (MaxUsage + 2) /\ c # MaxUsage + 1

MonthlyInv ==
  /\ mStart \in 0 .. CalendarTime /\ mNow \in 0 .. CalendarTime
  /\ mResetDay \in Monthly!ResetDays
  /\ Counts(mCount)

LEMMA MonthlyStarts == Monthly!Init => MonthlyInv
  BY UsageAssumption DEF Monthly!Init, MonthlyInv, Counts

LEMMA MonthlyKeeps ==
  ASSUME MonthlyInv, [Monthly!Next]_(Monthly!vars)
  PROVE  MonthlyInv' /\ (~ UNCHANGED Monthly!vars => Monthly!CountInItsPeriod)
<1> USE UsageAssumption DEF MonthlyInv, Counts, Monthly!CountInItsPeriod
<1>1. CASE Monthly!IncrementUsage
  BY <1>1 DEF Monthly!IncrementUsage
<1>2. CASE Monthly!CheckAndResetPeriod
  BY <1>2 DEF Monthly!CheckAndResetPeriod
<1>3. ASSUME NEW used, NEW end, Monthly!SyncUsage(used, end) PROVE FALSE
  BY <1>3 DEF Monthly!SyncUsage
<1>4. ASSUME NEW d \in Monthly!ResetDays, Monthly!SetMonthlyResetDay(d)
      PROVE  MonthlyInv' /\ mCount' = mCount
  BY <1>4 DEF Monthly!SetMonthlyResetDay, Monthly!counter
<1>5. ASSUME NEW b, Monthly!SetEnabled(b) PROVE MonthlyInv' /\ mCount' = mCount
  BY <1>5 DEF Monthly!SetEnabled, Monthly!counter
<1>6. ASSUME NEW t, Monthly!Tick(t) PROVE MonthlyInv' /\ mCount' = mCount
  BY <1>6 DEF Monthly!Tick, Monthly!Times, Monthly!counter
<1>7. CASE UNCHANGED Monthly!vars
  BY <1>7 DEF Monthly!vars
<1> QED BY <1>1, <1>2, <1>3, <1>4, <1>5, <1>6, <1>7 DEF Monthly!Next

(* A rolling period: a synced count is of the period it began with, and a  *)
(* window that was observed has a figure.                                  *)
RollingInv ==
  /\ uNow \in Nat /\ start \in Int /\ promised \in Int
  /\ Counts(count)
  /\ promised = -1 \/ start = promised - RollingLength
  /\ uQuota \in [Windows -> [used : Int, at : Int, reset : Int]]
  /\ Rolling!OnlyFiguresRefresh

LEMMA RollingStarts == Rolling!Init => RollingInv
  BY UsageAssumption
     DEF Rolling!Init, RollingInv, Counts, Rolling!Never, Rolling!Absent, Rolling!OnlyFiguresRefresh

LEMMA RollingKeeps ==
  ASSUME RollingInv, [Rolling!Next]_(Rolling!vars)
  PROVE  RollingInv' /\ (~ UNCHANGED Rolling!vars => Rolling!CountInItsPeriod)
<1> USE UsageAssumption DEF RollingInv, Counts, Rolling!CountInItsPeriod, Rolling!Never
<1>1. CASE Rolling!IncrementUsage
  <2>1. CASE Rolling!Over
    BY <1>1, <2>1 DEF Rolling!IncrementUsage, Rolling!OnlyFiguresRefresh
  <2>2. CASE ~Rolling!Over
    BY <1>1, <2>2 DEF Rolling!IncrementUsage, Rolling!OnlyFiguresRefresh
  <2> QED BY <2>1, <2>2
<1>2. CASE Rolling!CheckAndResetPeriod
  BY <1>2 DEF Rolling!CheckAndResetPeriod, Rolling!OnlyFiguresRefresh
<1>3. ASSUME NEW used \in Rolling!Reported,
             NEW end \in {Rolling!Never} \cup (uNow + 1) .. (uNow + RollingLength),
             Rolling!SyncUsage(used, end)
      PROVE  RollingInv' /\ Rolling!CountInItsPeriod
  BY <1>3 DEF Rolling!SyncUsage, Rolling!Reported, Rolling!OnlyFiguresRefresh
<1>4. ASSUME NEW d, Rolling!SetMonthlyResetDay(d) PROVE FALSE
  BY <1>4 DEF Rolling!SetMonthlyResetDay
<1>5. ASSUME NEW b, Rolling!SetEnabled(b) PROVE RollingInv' /\ count' = count
  BY <1>5 DEF Rolling!SetEnabled, Rolling!counter, Rolling!OnlyFiguresRefresh
<1>6. ASSUME NEW t, Rolling!Tick(t) PROVE RollingInv' /\ count' = count
  BY <1>6 DEF Rolling!Tick, Rolling!Times, Rolling!counter, Rolling!OnlyFiguresRefresh
<1>7. ASSUME NEW w \in Windows, NEW used \in Rolling!Figures, NEW remaining \in Rolling!Figures,
             NEW reset \in {Rolling!Never, uNow + 1},
             Rolling!MergeWindow(w, used, remaining, reset)
      PROVE  RollingInv' /\ count' = count
  <2> DEFINE share == Rolling!UsedShare(used, remaining)
  <2>1. share \in Int /\ share # Rolling!Absent
    BY <1>7 DEF Rolling!MergeWindow, Rolling!Usable, Rolling!UsedShare, Rolling!Figures,
                Rolling!Absent, Rolling!Unusable
  <2>2. /\ UNCHANGED <<count, start, promised, uNow>>
        /\ uQuota' = [uQuota EXCEPT ![w] = [used |-> share, at |-> uNow, reset |-> reset]]
    BY <1>7 DEF Rolling!MergeWindow, Rolling!counter
  <2> HIDE DEF share
  <2>3. uQuota' \in [Windows -> [used : Int, at : Int, reset : Int]]
    BY <2>1, <2>2
  <2>4. Rolling!OnlyFiguresRefresh'
    BY <2>1, <2>2 DEF Rolling!OnlyFiguresRefresh
  <2> QED BY <2>2, <2>3, <2>4
<1>8. CASE UNCHANGED Rolling!vars
  BY <1>8 DEF Rolling!vars, Rolling!OnlyFiguresRefresh
<1>9. count' = count => Rolling!CountInItsPeriod
  OBVIOUS
<1>10. CASE Rolling!Next
  <2> HIDE DEF RollingInv, Counts, Rolling!CountInItsPeriod, Rolling!Never
  <2> QED
    BY <1>1, <1>2, <1>3, <1>4, <1>5, <1>6, <1>7, <1>9, <1>10 DEF Rolling!Next
<1> QED BY <1>8, <1>10

LEMMA UsageKept ==
  MonthlyInv /\ RollingInv => PeriodsAreCurrent
<1> SUFFICES ASSUME MonthlyInv, RollingInv PROVE PeriodsAreCurrent
  OBVIOUS
<1>1. Monthly!PeriodEndIsNextReset
  BY EndIsNextReset DEF MonthlyInv, Monthly!PeriodEndIsNextReset
<1>2. Rolling!SyncedCountKept
  BY UsageAssumption DEF RollingInv, Rolling!SyncedCountKept, Rolling!Over, Rolling!PeriodEnd
<1>3. Rolling!AvailableIsCurrent
  <2> SUFFICES ASSUME NEW w \in Windows, Rolling!Freshness(w) = "fresh"
               PROVE  /\ uQuota[w].at \in (uNow - FreshFor + 1) .. uNow
                      /\ uQuota[w].reset \notin 0 .. uNow
    BY DEF Rolling!AvailableIsCurrent, Rolling!Available
  <2>1. uQuota[w].at \in Int /\ uNow \in Int
    BY DEF RollingInv
  <2>2. /\ uQuota[w].reset \notin 0 .. uNow
        /\ ~ (uQuota[w].at > uNow) /\ ~ (uNow - uQuota[w].at >= FreshFor)
    BY DEF Rolling!Freshness
  <2> QED BY <2>1, <2>2, UsageAssumption
<1> QED BY <1>1, <1>2, <1>3 DEF PeriodsAreCurrent, RollingInv

(* Activity falls into the period it is counted in, rolling or monthly.    *)
THEOREM CountsInItsPeriod == Rolling!Spec /\ Monthly!Spec => CountedInItsPeriod
<1>1. MonthlyInv /\ [Monthly!Next]_(Monthly!vars)
        => MonthlyInv' /\ [Monthly!CountInItsPeriod]_(Monthly!vars)
  BY MonthlyKeeps
<1>2. RollingInv /\ [Rolling!Next]_(Rolling!vars)
        => RollingInv' /\ [Rolling!CountInItsPeriod]_(Rolling!vars)
  BY RollingKeeps
<1> QED
  BY <1>1, <1>2, MonthlyStarts, RollingStarts, PTL
     DEF Rolling!Spec, Monthly!Spec, CountedInItsPeriod, Rolling!CountedInItsPeriod,
         Monthly!CountedInItsPeriod

-----------------------------------------------------------------------------
(* The sync of Antigravity *)

Points == Antigravity!Endpoint
Rows == Antigravity!Row

Sent(c, g) == c.gen \in 1 .. g /\ c.endpoint \in Points /\ c.rows \in Seq(Rows)

ServerTypes ==
  /\ aEnabled \in BOOLEAN /\ installed \in BOOLEAN
  /\ aSyncing \in BOOLEAN /\ synced \in BOOLEAN
  /\ aGeneration \in 0 .. MaxSyncs
  /\ pending \in Seq(Points)
  /\ \A c \in aCalls : Sent(c, aGeneration)
  /\ aShown \in [Antigravity!Slots -> Rows \cup {Antigravity!NoRow}]
  /\ band \in 0 .. 2

(* The requests of the current generation: one in a sync, which only an    *)
(* enabled monitor shows, and else none.                                   *)
Waiting(g, C) == {c \in C : c.gen = g}
OneWaiting ==
  /\ aSyncing => aEnabled /\ \E c \in aCalls : Waiting(aGeneration, aCalls) = {c}
  /\ ~aSyncing => Waiting(aGeneration, aCalls) = {}

ServerInv == ServerTypes /\ OneWaiting /\ Antigravity!EveryEndpointAsked

LEMMA ServerStarts == Antigravity!Init => ServerInv
<1> SUFFICES ASSUME Antigravity!Init PROVE ServerInv
  OBVIOUS
<1>1. aShown \in [Antigravity!Slots -> Rows \cup {Antigravity!NoRow}]
  BY DEF Antigravity!Init
<1>2. ServerTypes
  <2>1. aEnabled \in BOOLEAN /\ installed \in BOOLEAN /\ aSyncing \in BOOLEAN /\ synced \in BOOLEAN
    BY Zenon DEF Antigravity!Init
  <2>2. aGeneration \in 0 .. MaxSyncs /\ band \in 0 .. 2
    <3>1. aGeneration = 0 /\ band = 0
      BY Zenon DEF Antigravity!Init
    <3> QED BY <3>1, AntigravityAssumption
  <2>3. pending \in Seq(Points) /\ aCalls = {}
    BY EmptySeq DEF Antigravity!Init
  <2> QED BY ONLY <1>1, <2>1, <2>2, <2>3 DEF ServerTypes
<1>3. OneWaiting /\ Antigravity!EveryEndpointAsked
  BY DEF Antigravity!Init, OneWaiting, Waiting, Antigravity!EveryEndpointAsked
<1> QED BY <1>2, <1>3 DEF ServerInv

(* The endpoints that are found are some, in some order.                   *)
LEMMA SameCardinality == \A S : Antigravity!Cardinality(S) = Cardinality(S)
  BY DEF Antigravity!Cardinality, Cardinality

LEMMA OrderIsSeq ==
  ASSUME NEW S, IsFiniteSet(S), S \subseteq Points, NEW q \in Antigravity!SetToSeqs(S)
  PROVE  q \in Seq(Points)
<1>1. Cardinality(S) \in Nat
  BY FS_CardinalityType
<1>2. q \in [1 .. Cardinality(S) -> S]
  BY SameCardinality DEF Antigravity!SetToSeqs
<1> QED BY <1>1, <1>2

LEMMA PointOf ==
  ASSUME NEW server \in [Ports -> Antigravity!Kinds \cup {"none"}],
         NEW host \in Hosts, NEW port \in Antigravity!Listening(server)
  PROVE  Antigravity!At(server, host, port) \in Points
<1>1. port \in Ports /\ server[port] \in Antigravity!Kinds
  BY DEF Antigravity!Listening
<1> QED BY <1>1 DEF Points, Antigravity!At, Antigravity!Endpoint

LEMMA DiscoveredType ==
  ASSUME NEW server \in [Ports -> Antigravity!Kinds \cup {"none"}],
         NEW files \in SUBSET Antigravity!Files,
         NEW queue \in Antigravity!Discovered(server, files)
  PROVE  queue \in Seq(Points)
<1> DEFINE named == Antigravity!Named(server, files)
           running == Antigravity!Running(server)
           heard == Antigravity!Listening(server)
           known == {g \in files : g[2] \in heard}
<1>1. IsFiniteSet(heard) /\ heard \subseteq Ports
  BY AntigravityAssumption, FS_Subset DEF Antigravity!Listening
<1>2. IsFiniteSet(known) /\ known \subseteq Hosts \X Ports
  <2>1. IsFiniteSet(Hosts \X Ports)
    BY AntigravityAssumption, FS_Product
  <2>2. known \subseteq Hosts \X Ports
    BY DEF Antigravity!Files
  <2> QED BY <2>1, <2>2, FS_Subset
<1>3. IsFiniteSet(named) /\ named \subseteq Points
  <2>1. named = {Antigravity!At(server, f[1], f[2]) : f \in known}
    BY DEF Antigravity!Named
  <2>2. IsFiniteSet(named)
    <3> HIDE DEF known
    <3> DEFINE at == [f \in known |-> Antigravity!At(server, f[1], f[2])]
    <3>1. at \in Surjection(known, named)
      BY <2>1 DEF Surjection
    <3> QED BY <1>2, <3>1, FS_Surjection
  <2>3. ASSUME NEW f \in known PROVE Antigravity!At(server, f[1], f[2]) \in Points
    <3>1. f[1] \in Hosts /\ f[2] \in heard
      BY <1>2
    <3> QED BY <3>1, PointOf
  <2>4. named \subseteq Points
    BY <2>1, <2>3
  <2> QED BY <2>2, <2>4
<1>4. IsFiniteSet(running) /\ running \subseteq Points
  <2>1. running = {Antigravity!At(server, Antigravity!Loopback, p) : p \in heard}
    BY DEF Antigravity!Running
  <2>2. IsFiniteSet(running)
    <3> HIDE DEF heard
    <3> DEFINE at == [p \in heard |-> Antigravity!At(server, Antigravity!Loopback, p)]
    <3>1. at \in Surjection(heard, running)
      BY <2>1 DEF Surjection
    <3> QED BY <1>1, <3>1, FS_Surjection
  <2>3. running \subseteq Points
    BY <2>1, PointOf, AntigravityAssumption DEF Antigravity!Loopback
  <2> QED BY <2>2, <2>3
<1>5. PICK first \in Antigravity!SetToSeqs(named),
           rest \in Antigravity!ByPort(running \ named) : queue = first \o rest
  <2>1. queue \in {p[1] \o p[2] : p \in Antigravity!SetToSeqs(named)
                                           \X Antigravity!ByPort(running \ named)}
    BY DEF Antigravity!Discovered
  <2> HIDE DEF named, running
  <2> QED BY <2>1
<1>6. rest \in Antigravity!SetToSeqs(running \ named)
  BY <1>5 DEF Antigravity!ByPort
<1> HIDE DEF named, running
<1>7. IsFiniteSet(running \ named) /\ running \ named \subseteq Points
  BY <1>4, FS_Subset
<1>8. first \in Seq(Points) /\ rest \in Seq(Points)
  BY <1>3, <1>5, <1>6, <1>7, OrderIsSeq
<1> QED BY <1>5, <1>8

-----------------------------------------------------------------------------
(* How a sync goes on and ends *)

LEMMA SomeLast ==
  ASSUME NEW n \in Nat, NEW T, T \subseteq 1 .. n, T # {}
  PROVE  \E x \in T : \A y \in T : x >= y
<1> DEFINE R == {n - x : x \in T}
<1>1. R \subseteq Nat /\ R # {}
  <2>1. \A x \in T : n - x \in Nat
    OBVIOUS
  <2> QED BY <2>1
<1>2. PICK r \in R : \A y \in R : r <= y
  <2> HIDE DEF R
  <2> QED BY <1>1, Least
<1>3. PICK x \in T : r = n - x
  OBVIOUS
<1>4. ASSUME NEW y \in T PROVE x >= y
  <2>1. x \in 1 .. n /\ y \in 1 .. n
    OBVIOUS
  <2>2. n - x <= n - y
    BY <1>2, <1>3
  <2> QED BY <2>1, <2>2
<1> QED BY <1>4

LEMMA MergedType ==
  ASSUME ServerTypes, NEW rows \in Seq(Rows)
  PROVE  Antigravity!Merged(rows) \in [Antigravity!Slots -> Rows \cup {Antigravity!NoRow}]
<1> SUFFICES ASSUME NEW w \in Antigravity!Slots
             PROVE  Antigravity!Merged(rows)[w] \in Rows \cup {Antigravity!NoRow}
  BY DEF Antigravity!Merged
<1> DEFINE T == {i \in DOMAIN rows : rows[i].window = w /\ rows[i].used # Antigravity!Absent}
           last == CHOOSE i \in T : \A k \in T : i >= k
<1>1. Antigravity!Merged(rows)[w] = IF T = {} THEN aShown[w] ELSE rows[last]
  BY DEF Antigravity!Merged
<1>2. CASE T = {}
  BY <1>1, <1>2 DEF ServerTypes
<1>3. CASE T # {}
  <2>1. Len(rows) \in Nat /\ T \subseteq 1 .. Len(rows)
    OBVIOUS
  <2>2. \E i \in T : \A k \in T : i >= k
    <3> HIDE DEF T
    <3> QED BY <1>3, <2>1, SomeLast
  <2>3. last \in T
    BY <2>2
  <2> QED BY <1>1, <1>3, <2>1, <2>3
<1> QED BY <1>2, <1>3

(* The requests that are left when one is answered.                        *)
LEMMA AnsweredLeaves ==
  ASSUME ServerInv, NEW c \in aCalls, c.gen = aGeneration
  PROVE  /\ aSyncing /\ aEnabled /\ Waiting(aGeneration, aCalls \ {c}) = {}
         /\ aGeneration \in 1 .. MaxSyncs
  BY DEF ServerInv, ServerTypes, OneWaiting, Waiting, Sent

LEMMA SuccessKeeps ==
  ASSUME ServerInv, NEW c \in aCalls, NEW rows \in Seq(Rows),
         Antigravity!Answered(c), aCalls' = aCalls \ {c}, UNCHANGED pending,
         Antigravity!FinishSuccess(rows, Antigravity!MaxUsed(rows))
  PROVE  ServerInv'
<1>1. c.gen = aGeneration /\ UNCHANGED <<aEnabled, installed, aGeneration>>
  BY DEF Antigravity!Answered, Antigravity!Current
<1>2. Waiting(aGeneration, aCalls') = {}
  BY <1>1, AnsweredLeaves
<1>3. /\ aSyncing' = FALSE /\ synced' = TRUE /\ band' \in 0 .. 2 /\ aState' = "connected"
      /\ aShown' = Antigravity!Merged(rows)
  <2>1. band' \in {0, 1, 2}
    BY Zenon DEF Antigravity!FinishSuccess
  <2>2. /\ aSyncing' = FALSE /\ synced' = TRUE /\ aState' = "connected"
        /\ aShown' = Antigravity!Merged(rows)
    BY Zenon DEF Antigravity!FinishSuccess
  <2>3. band' \in 0 .. 2
    BY ONLY <2>1
  <2> QED BY ONLY <2>2, <2>3
<1>4. ServerTypes'
  BY <1>1, <1>3, MergedType DEF ServerInv, ServerTypes
<1>5. OneWaiting'
  BY <1>1, <1>2, <1>3 DEF OneWaiting
<1>6. Antigravity!EveryEndpointAsked'
  BY <1>3 DEF Antigravity!EveryEndpointAsked
<1> QED BY <1>4, <1>5, <1>6 DEF ServerInv

LEMMA TryKeeps ==
  ASSUME ServerInv, NEW queue \in Seq(Points), NEW last, NEW others,
         aEnabled' = TRUE, installed' \in BOOLEAN, aGeneration' \in 1 .. MaxSyncs,
         \A c \in others : Sent(c, aGeneration'),
         Waiting(aGeneration', others) = {},
         Antigravity!TryNextEndpoint(queue, last, others)
  PROVE  ServerInv'
<1> DEFINE usable == {i \in DOMAIN queue : queue[i].kind # "unreadable"}
           reached == CHOOSE i \in usable : \A k \in usable : i <= k
<1>1. CASE usable = {}
  <2>1. /\ aSyncing' = FALSE /\ UNCHANGED <<synced, aShown, band>>
        /\ aCalls' = others /\ pending' = <<>>
    BY <1>1 DEF Antigravity!TryNextEndpoint, Antigravity!FinishFailure
  <2>2. ServerTypes'
    <3>1. pending' \in Seq(Points)
      BY <2>1, EmptySeq
    <3>2. aSyncing' \in BOOLEAN /\ synced' \in BOOLEAN /\ aEnabled' \in BOOLEAN
      BY Zenon, <2>1 DEF ServerInv, ServerTypes
    <3>3. aGeneration' \in 0 .. MaxSyncs /\ band' \in 0 .. 2
      BY <2>1, AntigravityAssumption DEF ServerInv, ServerTypes
    <3> QED BY Zenon, <2>1, <3>1, <3>2, <3>3 DEF ServerInv, ServerTypes
  <2>3. OneWaiting' /\ Antigravity!EveryEndpointAsked'
    BY <2>1 DEF OneWaiting, Antigravity!EveryEndpointAsked
  <2> QED BY <2>2, <2>3 DEF ServerInv
<1>2. CASE usable # {}
  <2>1. reached \in 1 .. Len(queue)
    <3>1. usable \subseteq Nat /\ usable \subseteq 1 .. Len(queue)
      OBVIOUS
    <3>2. \E i \in usable : \A k \in usable : i <= k
      <4> HIDE DEF usable
      <4> QED BY <1>2, <3>1, Least
    <3>3. reached \in usable
      BY <3>2
    <3> HIDE DEF usable, reached
    <3> QED BY <3>1, <3>3
  <2>2. PICK rpc : /\ aCalls' = others \cup {Antigravity!Call(rpc, queue[reached], <<>>)}
                   /\ pending' = SubSeq(queue, reached + 1, Len(queue))
                   /\ aSyncing' = TRUE /\ aState' = "connecting"
                   /\ UNCHANGED <<synced, aShown, band>>
    BY <1>2 DEF Antigravity!TryNextEndpoint
  <2> HIDE DEF usable, reached
  <2> DEFINE c == Antigravity!Call(rpc, queue[reached], <<>>)
  <2>3. c.gen = aGeneration' /\ c.endpoint = queue[reached] /\ c.rows = <<>>
    BY DEF Antigravity!Call
  <2>4. Sent(c, aGeneration')
    <3>1. queue[reached] \in Points /\ <<>> \in Seq(Rows)
      BY <2>1, EmptySeq
    <3>2. aGeneration' \in Nat /\ 1 <= aGeneration'
      OBVIOUS
    <3>3. c.gen \in 1 .. aGeneration'
      BY ONLY <2>3, <3>2
    <3> HIDE DEF c
    <3> QED BY ONLY <2>3, <3>1, <3>3 DEF Sent
  <2>5. pending' \in Seq(Points)
    BY <2>1, <2>2
  <2> HIDE DEF c
  <2>6. ServerTypes'
    BY <2>2, <2>4, <2>5 DEF ServerInv, ServerTypes, c
  <2>7. c \in aCalls' /\ Waiting(aGeneration', aCalls') = {c}
    BY <2>2, <2>3 DEF Waiting, c
  <2>8. OneWaiting'
    BY <2>2, <2>7 DEF OneWaiting
  <2>9. Antigravity!EveryEndpointAsked'
    BY <2>2 DEF Antigravity!EveryEndpointAsked
  <2> QED BY <2>6, <2>8, <2>9 DEF ServerInv
<1> QED BY <1>1, <1>2

(* Another protocol or step of the same endpoint: one request for another. *)
LEMMA StepKeeps ==
  ASSUME ServerInv, NEW c \in aCalls, NEW rpc, NEW rows \in Seq(Rows), Antigravity!Answered(c),
         aCalls' = (aCalls \ {c}) \cup {Antigravity!Call(rpc, c.endpoint, rows)},
         UNCHANGED <<aSyncing, pending, aState, code, synced, aShown, band>>
  PROVE  ServerInv'
<1>1. c.gen = aGeneration /\ UNCHANGED <<aEnabled, installed, aGeneration>>
  BY DEF Antigravity!Answered, Antigravity!Current
<1>2. /\ aSyncing /\ aEnabled /\ Waiting(aGeneration, aCalls \ {c}) = {}
      /\ aGeneration \in 1 .. MaxSyncs
  BY <1>1, AnsweredLeaves
<1> DEFINE new == Antigravity!Call(rpc, c.endpoint, rows)
<1>3. new.gen = aGeneration /\ new.endpoint = c.endpoint /\ new.rows = rows
  BY <1>1 DEF Antigravity!Call
<1>4. Sent(new, aGeneration)
  BY <1>2, <1>3 DEF ServerInv, ServerTypes, Sent
<1> HIDE DEF new
<1>5. ServerTypes'
  BY <1>1, <1>4 DEF ServerInv, ServerTypes, new
<1>6. new \in aCalls' /\ Waiting(aGeneration, aCalls') = {new}
  BY <1>2, <1>3 DEF Waiting, new
<1>7. OneWaiting'
  BY <1>1, <1>2, <1>6 DEF OneWaiting
<1>8. Antigravity!EveryEndpointAsked'
  BY DEF ServerInv, Antigravity!EveryEndpointAsked
<1> QED BY <1>5, <1>7, <1>8 DEF ServerInv

-----------------------------------------------------------------------------
(* Every step of the sync *)

LEMMA RowsAreTyped ==
  /\ Antigravity!StatusRows \subseteq Seq(Rows)
  /\ Antigravity!SummaryRows \subseteq Seq(Rows)
<1>1. ASSUME NEW rows \in Antigravity!StatusRows PROVE rows \in Seq(Rows)
  <2>1. PICK used \in [DOMAIN Models -> Percentages \cup {Antigravity!Absent}] :
          rows = [i \in DOMAIN Models |-> [id |-> Models[i], window |-> "", used |-> used[i]]]
    BY DEF Antigravity!StatusRows
  <2>2. DOMAIN Models = 1 .. Len(Models) /\ Len(Models) \in Nat
    BY AntigravityAssumption
  <2>3. ASSUME NEW i \in DOMAIN Models
        PROVE  [id |-> Models[i], window |-> "", used |-> used[i]] \in Rows
    <3>1. Models[i] \in Antigravity!ToSet(Models)
      BY DEF Antigravity!ToSet
    <3> QED BY <3>1 DEF Rows, Antigravity!Row
  <2>4. rows \in [1 .. Len(Models) -> Rows]
    BY <2>1, <2>2, <2>3
  <2> QED BY <2>2, <2>4
<1>2. ASSUME NEW rows \in Antigravity!SummaryRows PROVE rows \in Seq(Rows)
  <2>1. PICK used \in [DOMAIN Buckets -> Percentages \cup {Antigravity!Absent}] :
          rows = [i \in DOMAIN Buckets |->
                    [id |-> Buckets[i], window |-> Window[i], used |-> used[i]]]
    BY DEF Antigravity!SummaryRows
  <2>2. DOMAIN Buckets = 1 .. Len(Buckets) /\ Len(Buckets) \in Nat
    BY AntigravityAssumption
  <2>3. ASSUME NEW i \in DOMAIN Buckets
        PROVE  [id |-> Buckets[i], window |-> Window[i], used |-> used[i]] \in Rows
    <3>1. Buckets[i] \in Antigravity!ToSet(Buckets) /\ Window[i] \in Antigravity!ToSet(Window)
      BY AntigravityAssumption DEF Antigravity!ToSet
    <3> QED BY <3>1 DEF Rows, Antigravity!Row
  <2>4. rows \in [1 .. Len(Buckets) -> Rows]
    BY <2>1, <2>2, <2>3
  <2> QED BY <2>2, <2>4
<1> QED BY <1>1, <1>2

LEMMA RefreshKeeps == ServerInv /\ Antigravity!RefreshQuota => ServerInv'
<1> SUFFICES ASSUME ServerInv, Antigravity!RefreshQuota PROVE ServerInv'
  OBVIOUS
<1>1. /\ aEnabled = TRUE /\ aSyncing = FALSE /\ aEnabled' = aEnabled
      /\ installed' \in BOOLEAN
  BY Zenon DEF Antigravity!RefreshQuota, ServerInv, ServerTypes
<1>2. aGeneration' = aGeneration + 1 /\ aGeneration' \in 1 .. MaxSyncs /\ aGeneration \in Nat
  <2>1. aGeneration < MaxSyncs /\ aGeneration' = aGeneration + 1
    BY DEF Antigravity!RefreshQuota
  <2>2. aGeneration \in 0 .. MaxSyncs
    BY DEF ServerInv, ServerTypes
  <2> QED BY <2>1, <2>2, AntigravityAssumption
<1>3. ASSUME NEW c \in aCalls PROVE Sent(c, aGeneration') /\ c.gen # aGeneration'
  <2>1. Sent(c, aGeneration)
    BY DEF ServerInv, ServerTypes
  <2> QED BY <1>2, <2>1 DEF Sent
<1>4. Waiting(aGeneration', aCalls) = {}
  BY <1>3 DEF Waiting
<1>5. ASSUME NEW reason, reason = "not_installed" \/ pending' = <<>>,
             Antigravity!FinishFailure(reason), UNCHANGED aCalls,
             pending' \in Seq(Points)
      PROVE  ServerInv'
  <2>1. aSyncing' = FALSE /\ code' = reason /\ UNCHANGED <<synced, aShown, band>>
    BY <1>5 DEF Antigravity!FinishFailure
  <2>2. ServerTypes'
    <3>1. aGeneration' \in 0 .. MaxSyncs /\ band' \in 0 .. 2
      BY <1>2, <2>1 DEF ServerInv, ServerTypes
    <3>2. \A c \in aCalls' : Sent(c, aGeneration')
      BY <1>3, <1>5
    <3>3. aSyncing' \in BOOLEAN /\ aEnabled' \in BOOLEAN /\ synced' \in BOOLEAN
      BY Zenon, <1>1, <2>1 DEF ServerInv, ServerTypes
    <3> QED BY Zenon, <1>1, <1>5, <2>1, <3>1, <3>2, <3>3 DEF ServerInv, ServerTypes
  <2>3. OneWaiting'
    BY <1>4, <1>5, <2>1 DEF OneWaiting
  <2>4. Antigravity!EveryEndpointAsked'
    BY <1>5, <2>1 DEF Antigravity!EveryEndpointAsked
  <2> QED BY <2>2, <2>3, <2>4 DEF ServerInv
<1>6. CASE Antigravity!FinishFailure("not_installed") /\ UNCHANGED <<pending, aCalls>>
  <2>1. pending' \in Seq(Points)
    BY <1>6 DEF ServerInv, ServerTypes
  <2> QED BY <1>5, <1>6, <2>1
<1>7. CASE Antigravity!FinishFailure("daemon_not_running") /\ pending' = <<>> /\ UNCHANGED aCalls
  <2>1. pending' \in Seq(Points)
    BY <1>7, EmptySeq
  <2> QED BY <1>5, <1>7, <2>1
<1>8. ASSUME NEW queue \in Seq(Points), Antigravity!TryNextEndpoint(queue, "", aCalls)
      PROVE  ServerInv'
  <2>1. aEnabled' = TRUE
    BY Zenon, <1>1
  <2> QED BY <1>1, <1>2, <1>3, <1>4, <1>8, <2>1, TryKeeps
<1>9. ASSUME ~(Antigravity!FinishFailure("not_installed") /\ UNCHANGED <<pending, aCalls>>)
      PROVE  \E queue \in Seq(Points) :
               IF queue = <<>>
               THEN /\ Antigravity!FinishFailure("daemon_not_running")
                    /\ pending' = <<>> /\ UNCHANGED aCalls
               ELSE Antigravity!TryNextEndpoint(queue, "", aCalls)
  <2>1. PICK server \in [Ports -> Antigravity!Kinds \cup {"none"}],
             files \in SUBSET Antigravity!Files :
          \E queue \in Antigravity!Discovered(server, files) :
            IF queue = <<>>
            THEN /\ Antigravity!FinishFailure("daemon_not_running")
                 /\ pending' = <<>> /\ attempt' = "" /\ UNCHANGED aCalls
            ELSE Antigravity!TryNextEndpoint(queue, "", aCalls)
    BY Zenon, <1>9 DEF Antigravity!RefreshQuota
  <2>2. PICK queue \in Antigravity!Discovered(server, files) :
            IF queue = <<>>
            THEN /\ Antigravity!FinishFailure("daemon_not_running")
                 /\ pending' = <<>> /\ attempt' = "" /\ UNCHANGED aCalls
            ELSE Antigravity!TryNextEndpoint(queue, "", aCalls)
    BY <2>1
  <2>3. queue \in Seq(Points)
    BY DiscoveredType
  <2> QED BY <2>2, <2>3
<1> QED BY <1>6, <1>7, <1>8, <1>9

LEMMA EnabledKeeps ==
  ASSUME NEW b \in BOOLEAN, ServerInv, Antigravity!SetEnabled(b)
  PROVE  ServerInv'
<1>1. aEnabled' = b /\ UNCHANGED <<pending, aCalls, synced, aShown, band>>
  BY DEF Antigravity!SetEnabled
<1>2. CASE b
  <2>1. /\ installed' \in BOOLEAN /\ UNCHANGED <<aSyncing, aGeneration>>
        /\ (aState' = "unavailable" \/ UNCHANGED <<aState, code>>)
    BY <1>2 DEF Antigravity!SetEnabled
  <2>2. ServerTypes'
    BY Zenon, <1>1, <2>1 DEF ServerInv, ServerTypes
  <2>3. OneWaiting'
    <3>1. aEnabled' /\ Waiting(aGeneration', aCalls') = Waiting(aGeneration, aCalls)
      BY <1>1, <1>2, <2>1
    <3> QED BY Zenon, <1>1, <2>1, <3>1 DEF ServerInv, OneWaiting
  <2>4. Antigravity!EveryEndpointAsked'
    BY <1>1, <2>1 DEF ServerInv, Antigravity!EveryEndpointAsked
  <2> QED BY <2>2, <2>3, <2>4 DEF ServerInv
<1>3. CASE ~b
  <2>1. /\ aGeneration < MaxSyncs /\ aGeneration' = aGeneration + 1
        /\ aSyncing' = FALSE /\ UNCHANGED <<installed, aState, code>>
    BY <1>3 DEF Antigravity!SetEnabled
  <2>2. aGeneration' \in 0 .. MaxSyncs /\ aGeneration \in Nat
    BY <2>1, AntigravityAssumption DEF ServerInv, ServerTypes
  <2>3. ASSUME NEW c \in aCalls PROVE Sent(c, aGeneration') /\ c.gen # aGeneration'
    <3>1. Sent(c, aGeneration)
      BY DEF ServerInv, ServerTypes
    <3> QED BY <2>1, <2>2, <3>1 DEF Sent
  <2>4. ServerTypes'
    <3>1. \A c \in aCalls' : Sent(c, aGeneration')
      BY <1>1, <2>3
    <3> QED BY Zenon, <1>1, <2>1, <2>2, <3>1 DEF ServerInv, ServerTypes
  <2>5. OneWaiting'
    BY <1>1, <2>1, <2>3 DEF OneWaiting, Waiting
  <2>6. Antigravity!EveryEndpointAsked'
    BY <1>1, <2>1 DEF ServerInv, Antigravity!EveryEndpointAsked
  <2> QED BY <2>4, <2>5, <2>6 DEF ServerInv
<1> QED BY <1>2, <1>3

LEMMA DroppedKeeps ==
  ASSUME ServerInv, NEW c \in aCalls, Antigravity!Dropped(c)
  PROVE  ServerInv'
<1>1. /\ aCalls' = aCalls \ {c}
      /\ UNCHANGED <<aEnabled, installed, aSyncing, aGeneration, pending, aState, code,
                     synced, aShown, band>>
  BY DEF Antigravity!Dropped, Antigravity!outcome
<1>2. ~(aEnabled /\ c.gen = aGeneration)
  BY DEF Antigravity!Dropped, Antigravity!Current
<1>3. ServerTypes'
  BY Zenon, <1>1 DEF ServerInv, ServerTypes
<1>4. OneWaiting'
  <2>1. CASE aSyncing
    <3>1. c.gen # aGeneration
      BY <1>2, <2>1 DEF ServerInv, OneWaiting
    <3>2. Waiting(aGeneration, aCalls') = Waiting(aGeneration, aCalls)
      BY <1>1, <3>1 DEF Waiting
    <3>3. PICK d \in aCalls : Waiting(aGeneration, aCalls) = {d}
      BY <2>1 DEF ServerInv, OneWaiting
    <3>4. d \in aCalls'
      BY <1>1, <3>1, <3>3 DEF Waiting
    <3>5. aEnabled
      BY <2>1 DEF ServerInv, OneWaiting
    <3> QED BY <1>1, <2>1, <3>2, <3>3, <3>4, <3>5 DEF OneWaiting
  <2>2. CASE ~aSyncing
    BY <1>1, <2>2 DEF ServerInv, OneWaiting, Waiting
  <2> QED BY <2>1, <2>2
<1>5. Antigravity!EveryEndpointAsked'
  BY <1>1 DEF ServerInv, Antigravity!EveryEndpointAsked
<1> QED BY <1>3, <1>4, <1>5 DEF ServerInv

LEMMA FailsKeeps ==
  ASSUME ServerInv, NEW c \in aCalls, NEW reason, Antigravity!Fails(c, reason)
  PROVE  ServerInv'
<1>1. /\ aEnabled /\ c.gen = aGeneration
      /\ UNCHANGED <<aEnabled, installed, aGeneration>>
      /\ Antigravity!TryNextEndpoint(pending, reason, aCalls \ {c})
  BY DEF Antigravity!Fails, Antigravity!Answered, Antigravity!Current
<1>2. Waiting(aGeneration, aCalls \ {c}) = {} /\ aGeneration \in 1 .. MaxSyncs
  BY <1>1, AnsweredLeaves
<1>3. /\ aEnabled' = TRUE /\ installed' \in BOOLEAN
  BY Zenon, <1>1 DEF ServerInv, ServerTypes
<1>4. /\ aGeneration' \in 1 .. MaxSyncs /\ pending \in Seq(Points)
      /\ \A d \in aCalls \ {c} : Sent(d, aGeneration')
      /\ Waiting(aGeneration', aCalls \ {c}) = {}
  BY <1>1, <1>2 DEF ServerInv, ServerTypes
<1> QED BY <1>1, <1>3, <1>4, TryKeeps

LEMMA ReplyKeeps ==
  ASSUME ServerInv, NEW c \in aCalls, Antigravity!Reply(c)
  PROVE  ServerInv'
<1>1. CASE Antigravity!Dropped(c)
  BY <1>1, DroppedKeeps
<1>2. CASE Antigravity!NotUnderstood(c)
  <2>1. <<>> \in Seq(Rows)
    BY EmptySeq
  <2> QED BY <1>2, <2>1, StepKeeps DEF Antigravity!NotUnderstood, Antigravity!outcome
<1>3. CASE \E reason \in Antigravity!Failures : Antigravity!Fails(c, reason)
  BY <1>3, FailsKeeps
<1>4. ASSUME NEW rows \in Antigravity!StatusRows, Antigravity!StatusArrives(c, rows)
      PROVE  ServerInv'
  BY <1>4, RowsAreTyped, StepKeeps DEF Antigravity!StatusArrives, Antigravity!outcome
<1>5. ASSUME NEW rows \in Antigravity!StatusRows, Antigravity!LegacyArrives(c, rows)
      PROVE  ServerInv'
  BY <1>5, RowsAreTyped, SuccessKeeps DEF Antigravity!LegacyArrives
<1>6. c.rows \in Seq(Rows)
  BY DEF ServerInv, ServerTypes, Sent
<1>7. CASE Antigravity!SummaryMissing(c)
  BY <1>6, <1>7, SuccessKeeps DEF Antigravity!SummaryMissing
<1>8. ASSUME NEW rows \in Antigravity!SummaryRows, Antigravity!SummaryArrives(c, rows)
      PROVE  ServerInv'
  <2>1. rows \o c.rows \in Seq(Rows)
    BY <1>6, RowsAreTyped
  <2> QED BY <1>8, <2>1, SuccessKeeps DEF Antigravity!SummaryArrives
<1> QED BY <1>1, <1>2, <1>3, <1>4, <1>5, <1>7, <1>8 DEF Antigravity!Reply

LEMMA ServerKeeps == ServerInv /\ [Antigravity!Next]_(Antigravity!vars) => ServerInv'
<1> SUFFICES ASSUME ServerInv, [Antigravity!Next]_(Antigravity!vars) PROVE ServerInv'
  OBVIOUS
<1>1. CASE Antigravity!RefreshQuota
  BY <1>1, RefreshKeeps
<1>2. CASE \E b \in BOOLEAN : Antigravity!SetEnabled(b)
  BY <1>2, EnabledKeeps
<1>3. CASE Antigravity!Replies
  BY <1>3, ReplyKeeps DEF Antigravity!Replies
<1>4. CASE UNCHANGED Antigravity!vars
  BY <1>4 DEF Antigravity!vars, Antigravity!outcome, ServerInv, ServerTypes, OneWaiting,
              Antigravity!EveryEndpointAsked
<1> QED BY <1>1, <1>2, <1>3, <1>4 DEF Antigravity!Next

LEMMA ServerImplies ==
  ServerInv => /\ Antigravity!TypeOK /\ Antigravity!OneCallPerSync
               /\ Antigravity!EveryEndpointAsked
<1> SUFFICES ASSUME ServerInv
             PROVE  Antigravity!TypeOK /\ Antigravity!OneCallPerSync
  BY DEF ServerInv
<1>1. Antigravity!TypeOK
  <2>1. {aEnabled, installed, aSyncing, synced} \subseteq BOOLEAN
    BY Zenon DEF ServerInv, ServerTypes
  <2>2. Antigravity!ToSet(pending) \subseteq Points
    BY DEF ServerInv, ServerTypes, Antigravity!ToSet
  <2>3. ASSUME NEW c \in aCalls
        PROVE  /\ c.gen \in 1 .. aGeneration /\ c.endpoint \in Points
               /\ Antigravity!ToSet(c.rows) \subseteq Rows
    <3>1. c.gen \in 1 .. aGeneration /\ c.endpoint \in Points /\ c.rows \in Seq(Rows)
      BY DEF ServerInv, ServerTypes, Sent
    <3> QED BY <3>1 DEF Antigravity!ToSet
  <2>4. /\ aGeneration \in 0 .. MaxSyncs /\ band \in 0 .. 2
        /\ aShown \in [Antigravity!Slots -> Rows \cup {Antigravity!NoRow}]
    BY DEF ServerInv, ServerTypes
  <2> QED BY ONLY <2>1, <2>2, <2>3, <2>4 DEF Antigravity!TypeOK, Points, Rows
<1>2. Antigravity!OneCallPerSync
  <2> DEFINE live == {c \in aCalls : Antigravity!Current(c)}
  <2>1. CASE aSyncing
    <3>1. aEnabled /\ live = Waiting(aGeneration, aCalls)
      BY <2>1 DEF ServerInv, OneWaiting, Waiting, Antigravity!Current
    <3>2. \E c \in live : live = {c}
      BY <2>1, <3>1 DEF ServerInv, OneWaiting
    <3> QED BY <2>1, <3>2 DEF Antigravity!OneCallPerSync
  <2>2. CASE ~aSyncing
    <3>1. live = {}
      BY <2>2 DEF ServerInv, OneWaiting, Waiting, Antigravity!Current
    <3> QED BY <2>2, <3>1 DEF Antigravity!OneCallPerSync
  <2> QED BY <2>1, <2>2
<1> QED BY <1>1, <1>2

(* What a usage card shows stays of now, through quotas that arrive, age   *)
(* and reset, switching off and on, and a sync that goes from endpoint to  *)
(* endpoint.                                                               *)
THEOREM UsageStaysCurrent ==
  Rolling!Spec /\ Monthly!Spec /\ Antigravity!Spec => []UsageIsCurrent
<1>1. MonthlyInv /\ [Monthly!Next]_(Monthly!vars) => MonthlyInv'
  BY MonthlyKeeps
<1>2. RollingInv /\ [Rolling!Next]_(Rolling!vars) => RollingInv'
  BY RollingKeeps
<1>3. MonthlyInv /\ RollingInv /\ ServerInv => UsageIsCurrent
  BY UsageKept, ServerImplies DEF UsageIsCurrent
<1> QED
  BY <1>1, <1>2, <1>3, MonthlyStarts, RollingStarts, ServerStarts, ServerKeeps, PTL
     DEF Rolling!Spec, Monthly!Spec, Antigravity!Spec

-----------------------------------------------------------------------------
(* The session logs *)

(* The files, and what is stored of them.                                 *)
LogRecord == [id : Paths, time : Nat \ {0}, value : -1 .. 2]
LogFile == [state : {"never", "file", "refused", "gone"}, session : Paths, created : Nat,
            log : Seq(LogRecord), torn : BOOLEAN, stamp : Nat]
Point == [offset : Nat, size : Int, stamp : Nat]
Row == [id : Paths, last : Nat, partial : BOOLEAN]
Event == [id : Paths, time : Nat \ {0}, value : -1 .. 2, delta : Int]
Mark == [at : Nat, value : Int]
ImportDB == [events : SUBSET Event, counters : [Paths -> Mark], sessions : SUBSET Row,
             conflicts : SUBSET Paths, points : [Paths -> Point],
             cutoff : Nat, partial : BOOLEAN]

SessionRows(d, s) == {x \in d.sessions : x.id = s}
Events(d, s) == {x \in d.events : x.id = s}

(* What is said of a session when a record of it is read.                  *)
Touched(d, e, s, time, partly) ==
  /\ e \in ImportDB
  /\ e.points = d.points /\ e.cutoff = d.cutoff
  /\ \A x \in Paths \ {s} : SessionRows(e, x) = SessionRows(d, x)
  /\ \E row \in Row :
       /\ SessionRows(e, s) = {row} /\ time <= row.last /\ (partly => row.partial)
       /\ \A old : SessionRows(d, s) = {old} => old.last <= row.last /\ (old.partial => row.partial)

(* Other sessions change nothing else.                                     *)
LEMMA SessionsSet ==
  ASSUME NEW d \in ImportDB, NEW X \in SUBSET Row
  PROVE  LET e == [d EXCEPT !.sessions = X] IN
         /\ e \in ImportDB /\ e.sessions = X /\ e.events = d.events
         /\ e.counters = d.counters /\ e.conflicts = d.conflicts
         /\ e.points = d.points /\ e.cutoff = d.cutoff
BY DEF ImportDB

(* A session that is seen is of the record's time at least.                *)
LEMMA SeenTouches ==
  ASSUME NEW d \in ImportDB, NEW s \in Paths, NEW time \in Nat
  PROVE  /\ Touched(d, Logs!Seen(d, s, time), s, time, FALSE)
         /\ Logs!Seen(d, s, time).events = d.events
         /\ Logs!Seen(d, s, time).counters = d.counters
         /\ Logs!Seen(d, s, time).conflicts = d.conflicts
<1> DEFINE old == SessionRows(d, s)
           first == CHOOSE r \in old : TRUE
           row == IF old = {} THEN [id |-> s, last |-> time, partial |-> FALSE]
                  ELSE [first EXCEPT !.last = IF @ < time THEN time ELSE @]
           X == (d.sessions \ old) \cup {row}
           e == [d EXCEPT !.sessions = X]
<1>1. d.sessions \subseteq Row
  BY DEF ImportDB
<1>2. old # {} => first \in old /\ first \in Row /\ first.id = s
  BY <1>1 DEF SessionRows
<1>3. /\ row \in Row /\ row.id = s /\ time <= row.last
      /\ \A o : old = {o} => o.last <= row.last /\ (o.partial => row.partial)
  <2>1. CASE old = {}
    BY <2>1 DEF Row
  <2>2. CASE old # {}
    <3>1. first \in Row /\ first.id = s
      BY <1>2, <2>2
    <3>2. \A o : old = {o} => o = first
      BY <1>2, <2>2
    <3> HIDE DEF first, old
    <3>3. row = [first EXCEPT !.last = IF first.last < time THEN time ELSE first.last]
      BY <2>2, <3>1 DEF Row
    <3> HIDE DEF row
    <3> QED BY <3>1, <3>2, <3>3 DEF Row
  <2> QED BY <2>1, <2>2
<1>4. e = Logs!Seen(d, s, time)
  BY DEF Logs!Seen, SessionRows
<1> HIDE DEF row
<1>5. X \in SUBSET Row
  BY <1>1, <1>3
<1>6. SessionRows(e, s) = {row} /\ \A x \in Paths \ {s} : SessionRows(e, x) = SessionRows(d, x)
  <2>1. e.sessions = X
    BY <1>5, SessionsSet
  <2> HIDE DEF e
  <2> QED BY <1>3, <2>1 DEF SessionRows
<1>7. /\ e \in ImportDB /\ e.events = d.events
      /\ e.counters = d.counters /\ e.conflicts = d.conflicts
      /\ e.points = d.points /\ e.cutoff = d.cutoff
  BY <1>5, SessionsSet
<1> HIDE DEF e
<1> QED BY <1>3, <1>4, <1>6, <1>7 DEF Touched

(* One that is marked as partial is, and nothing else changes,             *)
LEMMA PartlyTouches ==
  ASSUME NEW d \in ImportDB, NEW s \in Paths, NEW time \in Nat, NEW e,
         Touched(d, e, s, time, FALSE)
  PROVE  /\ Touched(d, Logs!Partly(e, s), s, time, TRUE)
         /\ Logs!Partly(e, s).events = e.events
         /\ Logs!Partly(e, s).counters = e.counters
         /\ Logs!Partly(e, s).conflicts = e.conflicts
<1> DEFINE Part(r) == IF r.id = s THEN [r EXCEPT !.partial = TRUE] ELSE r
           X == {Part(r) : r \in e.sessions}
           n == [e EXCEPT !.sessions = X]
<1>1. e \in ImportDB /\ e.sessions \subseteq Row
  BY DEF Touched, ImportDB
<1>2. \A r \in Row : Part(r) \in Row /\ Part(r).id = r.id /\ Part(r).last = r.last
                      /\ (r.id = s => Part(r).partial) /\ (r.id # s => Part(r) = r)
  BY DEF Row
<1> HIDE DEF Part
<1>3. X \in SUBSET Row
  BY <1>1, <1>2
<1>4. n = Logs!Partly(e, s)
  BY DEF Logs!Partly, Part
<1>5. n \in ImportDB /\ n.sessions = X /\ n.events = e.events
         /\ n.counters = e.counters /\ n.conflicts = e.conflicts
         /\ n.points = e.points /\ n.cutoff = e.cutoff
  BY <1>1, <1>3, SessionsSet
<1> HIDE DEF n
<1>6. PICK row \in Row :
       /\ SessionRows(e, s) = {row} /\ time <= row.last
       /\ \A old : SessionRows(d, s) = {old} => old.last <= row.last /\ (old.partial => row.partial)
  BY DEF Touched
<1>7. SessionRows(n, s) = {Part(row)}
  <2>1. row \in e.sessions /\ row.id = s /\ \A r \in e.sessions : r.id = s => r = row
    BY <1>6 DEF SessionRows
  <2> QED BY <1>1, <1>2, <1>5, <2>1 DEF SessionRows
<1>8. \A x \in Paths \ {s} : SessionRows(n, x) = SessionRows(e, x)
  <2> SUFFICES ASSUME NEW x \in Paths \ {s} PROVE SessionRows(n, x) = SessionRows(e, x)
    OBVIOUS
  <2>1. \A r \in SessionRows(e, x) : r \in SessionRows(n, x)
    BY <1>1, <1>2, <1>5 DEF SessionRows
  <2>2. \A r \in SessionRows(n, x) : r \in SessionRows(e, x)
    BY <1>1, <1>2, <1>5 DEF SessionRows
  <2> QED BY <2>1, <2>2
<1>9. row.id = s
  BY <1>6 DEF SessionRows
<1>10. /\ Part(row) \in Row /\ time <= Part(row).last /\ Part(row).partial
       /\ \A old : SessionRows(d, s) = {old} => old.last <= Part(row).last
  BY <1>2, <1>6, <1>9
<1> QED BY <1>4, <1>5, <1>7, <1>8, <1>10 DEF Touched

(* and so is one that is marked for a counter that fell.                   *)
LEMMA PartialTouches ==
  ASSUME NEW d \in ImportDB, NEW s \in Paths, NEW time \in Nat, NEW e,
         Touched(d, e, s, time, FALSE)
  PROVE  /\ Touched(d, Logs!Partial(e, s), s, time, TRUE)
         /\ Logs!Partial(e, s).events = e.events
         /\ Logs!Partial(e, s).counters = e.counters
         /\ Logs!Partial(e, s).conflicts = e.conflicts
<1> DEFINE n == Logs!Partly(e, s)
           m == [n EXCEPT !.partial = TRUE]
<1>1. /\ Touched(d, n, s, time, TRUE)
      /\ n.events = e.events /\ n.counters = e.counters /\ n.conflicts = e.conflicts
  BY PartlyTouches
<1>2. m = Logs!Partial(e, s)
  BY DEF Logs!Partial
<1> HIDE DEF n
<1>3. n \in ImportDB
  BY <1>1 DEF Touched
<1>4. /\ m \in ImportDB /\ m.events = n.events /\ m.counters = n.counters
      /\ m.conflicts = n.conflicts /\ m.points = n.points /\ m.cutoff = n.cutoff
      /\ m.sessions = n.sessions
  BY <1>3 DEF ImportDB
<1> HIDE DEF m
<1>5. \A x : SessionRows(m, x) = SessionRows(n, x)
  BY <1>4 DEF SessionRows
<1> QED BY <1>1, <1>2, <1>4, <1>5 DEF Touched

(* An event or a counter is set besides.                                   *)
LEMMA StoreTouches ==
  ASSUME NEW d \in ImportDB, NEW s \in Paths, NEW time \in Nat, NEW partly \in BOOLEAN, NEW e,
         Touched(d, e, s, time, partly), NEW r \in LogRecord, NEW delta \in Int
  PROVE  /\ Touched(d, Logs!Store(e, r, delta), s, time, partly)
         /\ Logs!Store(e, r, delta).counters = e.counters
         /\ Logs!Store(e, r, delta).conflicts = e.conflicts
         /\ Logs!Store(e, r, delta).events =
              e.events \cup {[id |-> r.id, time |-> r.time, value |-> r.value, delta |-> delta]}
<1> DEFINE new == [id |-> r.id, time |-> r.time, value |-> r.value, delta |-> delta]
           m == [e EXCEPT !.events = e.events \cup {new}]
<1>1. e \in ImportDB /\ new \in Event
  BY DEF Touched, LogRecord, Event
<1>2. m = Logs!Store(e, r, delta)
  BY <1>1 DEF Logs!Store, ImportDB
<1> HIDE DEF new
<1>4. /\ m \in ImportDB /\ m.events = e.events \cup {new} /\ m.counters = e.counters
      /\ m.conflicts = e.conflicts /\ m.points = e.points /\ m.cutoff = e.cutoff
      /\ m.sessions = e.sessions
  BY <1>1 DEF ImportDB
<1> HIDE DEF m
<1>5. \A x : SessionRows(m, x) = SessionRows(e, x)
  BY <1>4 DEF SessionRows
<1> QED BY <1>2, <1>4, <1>5 DEF Touched, new

(* What has the same sessions is touched as well.                          *)
LEMMA SameSessions ==
  ASSUME NEW d \in ImportDB, NEW s \in Paths, NEW time \in Nat, NEW partly \in BOOLEAN, NEW e,
         Touched(d, e, s, time, partly), NEW m \in ImportDB,
         m.sessions = e.sessions, m.points = e.points, m.cutoff = e.cutoff
  PROVE  Touched(d, m, s, time, partly)
<1>1. \A x : SessionRows(m, x) = SessionRows(e, x)
  BY DEF SessionRows
<1> QED BY <1>1 DEF Touched

-----------------------------------------------------------------------------
(* A record of Codex *)

First(d, r) == d.counters[r.id] = Logs!NoCounter
Outside(r) == r.time <= horizon
Baseline(d, r, created) == First(d, r) /\ d.cutoff # 0 /\ created <= d.cutoff
Falls(d, r) == r.value < d.counters[r.id].value
Known(d, r) == \E x \in d.events : x.id = r.id /\ x.time = r.time
Mean(d, r, created) == Outside(r) \/ Baseline(d, r, created) \/ Falls(d, r)
EventOf(d, r) ==
  [id |-> r.id, time |-> r.time, value |-> r.value,
   delta |-> IF Falls(d, r) THEN 0 ELSE r.value - d.counters[r.id].value]

(* It is passed, the session is seen, or the counter is set,               *)
Sees(d, m, r) ==
  /\ m.events = d.events /\ m.counters = d.counters
  /\ Touched(d, m, r.id, r.time, Outside(r))
  /\ r.time < d.counters[r.id].at \/ (~First(d, r) /\ d.counters[r.id].value = r.value)

(* in which case what is not counted marks the session as partial.         *)
Counted(d, m, r, created) ==
  /\ ~Known(d, r) /\ d.counters[r.id].at <= r.time
  /\ Touched(d, m, r.id, r.time, Mean(d, r, created))
  /\ m.counters = [d.counters EXCEPT ![r.id] = [at |-> r.time, value |-> r.value]]
  /\ \/ m.events = d.events /\ Mean(d, r, created)
     \/ /\ m.events = d.events \cup {EventOf(d, r)}
        /\ ~Baseline(d, r, created)

(* A record of Codex is passed, seen or counted.                           *)
LEMMA Snapshots ==
  ASSUME NEW d \in ImportDB, NEW r \in LogRecord, NEW created \in Nat,
         NEW m, m = Logs!Snapshot(d, r, created)
  PROVE  \/ m = d /\ Known(d, r)
         \/ Sees(d, m, r)
         \/ Counted(d, m, r, created)
<1> DEFINE before == d.counters[r.id]
           told == Logs!Seen(d, r.id, r.time)
           marked == IF Falls(d, r) THEN Logs!Partial(told, r.id)
                     ELSE IF Outside(r) \/ Baseline(d, r, created) THEN Logs!Partly(told, r.id)
                     ELSE told
           mark == [at |-> r.time, value |-> r.value]
           counted == [marked EXCEPT !.counters[r.id] = mark]
           delta == IF Falls(d, r) THEN 0 ELSE r.value - before.value
<1>1. m = IF Known(d, r) THEN d
          ELSE IF before.at > r.time \/ (~First(d, r) /\ before.value = r.value)
               THEN IF Outside(r) THEN Logs!Partly(told, r.id) ELSE told
          ELSE IF Outside(r) \/ (d.cutoff # 0 /\ (Baseline(d, r, created) \/ Falls(d, r)))
               THEN counted
          ELSE Logs!Store(counted, r, delta)
  BY DEF Logs!Snapshot, Known, First, Outside, Baseline, Falls
<1>2. r.id \in Paths /\ r.time \in Nat /\ r.value \in Int /\ before \in Mark
  BY DEF LogRecord, ImportDB
<1>3. Touched(d, told, r.id, r.time, FALSE) /\ told.events = d.events /\ told.counters = d.counters
  BY <1>2, SeenTouches
<1> HIDE DEF told
<1>4. LET e == Logs!Partly(told, r.id) IN
      Touched(d, e, r.id, r.time, TRUE) /\ e.events = d.events /\ e.counters = d.counters
  BY ZenonT(60), <1>2, <1>3, PartlyTouches
<1>5. LET e == Logs!Partial(told, r.id) IN
      Touched(d, e, r.id, r.time, TRUE) /\ e.events = d.events /\ e.counters = d.counters
  BY ZenonT(60), <1>2, <1>3, PartialTouches
<1>6. /\ Touched(d, marked, r.id, r.time, Mean(d, r, created))
      /\ marked.events = d.events /\ marked.counters = d.counters
  <2>1. CASE Mean(d, r, created)
    <3>1. Mean(d, r, created) = TRUE
      BY <2>1 DEF Mean, Outside, Falls, Baseline, First
    <3> QED BY <3>1, <1>4, <1>5 DEF Mean
  <2>2. CASE ~Mean(d, r, created)
    <3>1. Mean(d, r, created) = FALSE
      BY <2>2 DEF Mean, Outside, Falls, Baseline, First
    <3> QED BY <3>1, <1>3 DEF Mean
  <2> QED BY <2>1, <2>2
<1> HIDE DEF marked
<1>7. mark \in Mark /\ Mean(d, r, created) \in BOOLEAN /\ delta \in Int
  BY <1>2 DEF Mark, Mean, Outside, Falls, Baseline, First
<1> HIDE DEF mark, delta
<1>8. /\ Touched(d, counted, r.id, r.time, Mean(d, r, created))
      /\ counted.events = d.events
      /\ counted.counters = [d.counters EXCEPT ![r.id] = mark]
  <2> DEFINE q == Mean(d, r, created)
  <2>1. q \in BOOLEAN /\ Touched(d, marked, r.id, r.time, q)
    BY <1>6, <1>7
  <2>2. marked \in ImportDB
    BY <2>1 DEF Touched
  <2>3. /\ counted \in ImportDB /\ counted.sessions = marked.sessions
        /\ counted.points = marked.points /\ counted.cutoff = marked.cutoff
        /\ counted.events = marked.events
        /\ counted.counters = [marked.counters EXCEPT ![r.id] = mark]
    BY <1>2, <1>7, <2>2 DEF ImportDB
  <2> HIDE DEF q, counted
  <2>4. Touched(d, counted, r.id, r.time, q)
    BY <1>2, <2>1, <2>3, SameSessions
  <2> QED BY <1>6, <2>3, <2>4 DEF q
<1> HIDE DEF counted
<1>9. LET e == Logs!Store(counted, r, delta) IN
      /\ Touched(d, e, r.id, r.time, Mean(d, r, created))
      /\ e.events = d.events \cup {EventOf(d, r)}
      /\ e.counters = [d.counters EXCEPT ![r.id] = mark]
  BY <1>2, <1>7, <1>8, StoreTouches DEF EventOf, delta
<1>10. before.at \in Nat
  BY <1>2 DEF Mark
<1>11. CASE Known(d, r)
  BY <1>1, <1>11
<1>12. CASE ~Known(d, r) /\ (before.at > r.time \/ (~First(d, r) /\ before.value = r.value))
  <2>1. CASE Outside(r)
    <3>1. Outside(r) = TRUE
      BY <2>1 DEF Outside
    <3>2. m = Logs!Partly(told, r.id)
      BY <1>1, <1>12, <2>1
    <3>3. r.time < before.at \/ (~First(d, r) /\ before.value = r.value)
      BY <1>2, <1>10, <1>12
    <3> QED BY <1>4, <3>1, <3>2, <3>3 DEF Sees
  <2>2. CASE ~Outside(r)
    <3>1. Outside(r) = FALSE
      BY <2>2 DEF Outside
    <3>2. m = told
      BY <1>1, <1>12, <2>2
    <3>3. r.time < before.at \/ (~First(d, r) /\ before.value = r.value)
      BY <1>2, <1>10, <1>12
    <3> QED BY <1>3, <3>1, <3>2, <3>3 DEF Sees
  <2> QED BY <2>1, <2>2
<1>13. CASE ~Known(d, r) /\ ~(before.at > r.time \/ (~First(d, r) /\ before.value = r.value))
  <2>0. before.at <= r.time
    BY <1>2, <1>10, <1>13
  <2>1. CASE Outside(r) \/ (d.cutoff # 0 /\ (Baseline(d, r, created) \/ Falls(d, r)))
    <3>1. m = counted /\ Mean(d, r, created)
      BY <1>1, <1>13, <2>1 DEF Mean
    <3> QED BY <1>8, <1>13, <2>0, <3>1 DEF Counted, mark
  <2>2. CASE ~(Outside(r) \/ (d.cutoff # 0 /\ (Baseline(d, r, created) \/ Falls(d, r))))
    <3>1. m = Logs!Store(counted, r, delta) /\ ~Baseline(d, r, created)
      BY <1>1, <1>13, <2>2 DEF Baseline
    <3> QED BY <1>9, <1>13, <2>0, <3>1 DEF Counted, mark
  <2> QED BY <2>1, <2>2
<1> QED BY <1>11, <1>12, <1>13

-----------------------------------------------------------------------------
(* The sum of the events of a session *)

SumOf(E) == Logs!SumFunction([x \in E |-> x.delta])

WholeNumbers(E) == IsFiniteSet(E) /\ \A x \in E : x.delta \in Nat

(* The sum of the model is the one of the community modules.               *)
LEMMA SumOfIs ==
  \A E : SumOf(E) = SumFunctionOnSet([x \in E |-> x.delta], E)
<1>1. \A f, S : Logs!SumFunctionOnSet(f, S) = SumFunctionOnSet(f, S)
  BY DEF Logs!SumFunctionOnSet, Logs!FoldFunctionOnSet, Logs!MapThenFoldSet,
         SumFunctionOnSet, FoldFunctionOnSet, MapThenFoldSet
<1>2. \A E : SumOf(E) = Logs!SumFunctionOnSet([x \in E |-> x.delta], E)
  BY DEF SumOf, Logs!SumFunction
<1> QED BY <1>1, <1>2

(* A part of the events is added up by itself.                             *)
LEMMA SumOfPartIs ==
  ASSUME NEW E, WholeNumbers(E), NEW T \in SUBSET E
  PROVE  WholeNumbers(T) /\ SumOf(T) = SumFunctionOnSet([x \in E |-> x.delta], T)
<1> DEFINE f == [x \in E |-> x.delta]
           g == [x \in T |-> x.delta]
<1>1. IsFiniteSet(T) /\ \A x \in T : x.delta \in Nat
  BY FS_Subset DEF WholeNumbers
<1>2. \A x \in T : f[x] \in Int /\ g[x] = f[x]
  BY <1>1
<1>3. SumOf(T) = SumFunctionOnSet(g, T)
  BY SumOfIs
<1> HIDE DEF f, g
<1>4. SumFunctionOnSet(g, T) = SumFunctionOnSet(f, T)
  BY <1>1, <1>2, SumSame
<1> QED BY <1>1, <1>3, <1>4 DEF WholeNumbers, f

(* No events add up to 0,                                                  *)
LEMMA SumOfNone == SumOf({}) = 0
BY SumOfIs, SumEmpty

(* some add up to a natural number,                                        *)
LEMMA SumOfType ==
  ASSUME NEW E, WholeNumbers(E)
  PROVE  SumOf(E) \in Nat
<1> DEFINE f == [x \in E |-> x.delta]
<1>1. \A x \in E : f[x] \in Nat
  BY DEF WholeNumbers
<1>2. SumOf(E) = SumFunctionOnSet(f, E) /\ IsFiniteSet(E)
  BY SumOfIs DEF WholeNumbers
<1> HIDE DEF f
<1> QED BY <1>1, <1>2, SumOfNumbers

(* and a part of them to no more.                                          *)
LEMMA SumOfFewer ==
  ASSUME NEW E, WholeNumbers(E), NEW T \in SUBSET E
  PROVE  /\ WholeNumbers(T) /\ SumOf(T) \in Nat /\ SumOf(E) \in Nat
         /\ SumOf(E) = SumOf(T) + SumOf(E \ T)
         /\ SumOf(E \ T) \in Nat
<1> DEFINE f == [x \in E |-> x.delta]
<1>1. \A x \in E : f[x] \in Int
  BY DEF WholeNumbers
<1>2. /\ SumOf(T) = SumFunctionOnSet(f, T)
      /\ SumOf(E) = SumFunctionOnSet(f, E)
      /\ SumOf(E \ T) = SumFunctionOnSet(f, E \ T)
      /\ WholeNumbers(T) /\ WholeNumbers(E \ T)
  BY SumOfPartIs
<1>3. IsFiniteSet(E) /\ T \cup (E \ T) = E /\ T \cap (E \ T) = {}
  BY DEF WholeNumbers
<1> HIDE DEF f
<1>4. SumFunctionOnSet(f, E) = SumFunctionOnSet(f, T) + SumFunctionOnSet(f, E \ T)
  BY <1>1, <1>3, SumUnion
<1> QED BY <1>2, <1>4, SumOfType

(* One more adds its delta.                                                *)
LEMMA SumOfOneMore ==
  ASSUME NEW E, WholeNumbers(E), NEW x, x \notin E, x.delta \in Nat
  PROVE  WholeNumbers(E \cup {x}) /\ SumOf(E \cup {x}) = SumOf(E) + x.delta
<1> DEFINE M == E \cup {x}
           f == [y \in M |-> y.delta]
<1>1. WholeNumbers(M)
  BY FS_AddElement DEF WholeNumbers
<1>2. (\A y \in M : f[y] \in Int) /\ f[x] = x.delta /\ M \ {x} = E /\ x \in M
      /\ IsFiniteSet(M) /\ E \in SUBSET M
  BY <1>1 DEF WholeNumbers
<1>3. SumOf(M) = SumFunctionOnSet(f, M) /\ SumOf(E) = SumFunctionOnSet(f, E)
  BY <1>1, SumOfPartIs
<1> HIDE DEF f, M
<1>4. SumFunctionOnSet(f, M) = f[x] + SumFunctionOnSet(f, M \ {x})
  BY <1>2, SumRemove
<1>5. SumOf(E) \in Nat
  BY SumOfType
<1>6. SumOf(M) = SumOf(E) + x.delta
  <2>1. SumOf(M) = x.delta + SumOf(E)
    BY <1>2, <1>3, <1>4
  <2> QED BY <1>5, <2>1
<1> QED BY <1>1, <1>6 DEF M

-----------------------------------------------------------------------------
(* The files and the spending *)

Readable(p) == disk[p].state \in {"never", "file"}
LogOf(p) == disk[p].log
Entries(p) == 1 .. Len(disk[p].log)
Usable(k, r) == k < r.time /\ r.value # Logs!Junk
(* A file of after the deletion k.                                         *)
Young(k, p) == k = 0 \/ k < disk[p].created

FileTypes ==
  /\ disk \in [Paths -> LogFile]
  /\ total \in [Paths -> Int] /\ spent \in [Paths -> Nat]
  /\ written \in Nat /\ horizon \in Nat

(* A log is of one session and in the order of its times.                  *)
FileSound(p) ==
  /\ disk[p].state = "never" =>
       disk[p].session = p /\ disk[p].log = <<>> /\ ~disk[p].torn /\ total[p] = 0
  /\ disk[p].torn => disk[p].log # <<>>
  /\ disk[p].created <= written /\ disk[p].stamp <= written
  /\ \A i \in Entries(p) :
       /\ LogOf(p)[i].id = disk[p].session
       /\ 1 <= LogOf(p)[i].time /\ LogOf(p)[i].time <= written
       /\ Logs!Codex => LogOf(p)[i].value = Logs!Junk \/ LogOf(p)[i].value > 0
       /\ \A j \in Entries(p) : i < j => LogOf(p)[i].time < LogOf(p)[j].time

(* A session is in one file that can be read.                              *)
OneFile ==
  \A p, q \in Paths : Readable(p) /\ Readable(q) /\ disk[p].session = disk[q].session => p = q

FilesSound == FileTypes /\ (\A p \in Paths : FileSound(p)) /\ OneFile

(* What each session had used at each time, which the logs only bound: a   *)
(* total grows by no more than is used.                                    *)
Story(g) ==
  /\ g \in [Paths -> [Nat -> Nat]]
  /\ \A s \in Paths : \A t, u \in Nat :
       (t <= u => g[s][t] <= g[s][u]) /\ (written <= t => g[s][t] = spent[s])

(* What the log p bounds: between two of its records no less was used than *)
(* they differ by, and from its start if it began after the deletion k.    *)
Spends(g, k, p) ==
  LET s == disk[p].session log == LogOf(p) IN
  /\ Young(k, p) => total[s] <= spent[s]
  /\ \A i \in Entries(p) : Usable(k, log[i]) =>
       /\ total[s] - log[i].value <= spent[s] - g[s][log[i].time]
       /\ Young(k, p) => log[i].value <= g[s][log[i].time]
       /\ \A j \in Entries(p) : i < j /\ Usable(k, log[j]) =>
            log[j].value - log[i].value <= g[s][log[j].time] - g[s][log[i].time]

(* The records around the counter of their session.                        *)
Within(g, d, s, row) ==
  LET c == d.counters[s] IN
  \A q \in Paths : Readable(q) /\ disk[q].session = s => \A i \in Entries(q) :
    LET r == LogOf(q)[i] IN
    Usable(d.cutoff, r) =>
      /\ c.at <= r.time => r.value - c.value <= g[s][r.time] - g[s][c.at]
      /\ r.time <= c.at /\ horizon < r.time => row.partial \/ r.value <= c.value

(* A session that was read: its events are no more than was used when the  *)
(* counter was set, and all the counter says if it is not partial.         *)
Reads(g, d, s, row) ==
  LET c == d.counters[s] E == Events(d, s) IN
  /\ d.cutoff < c.at /\ c.at <= written
  /\ total[s] - c.value <= spent[s] - g[s][c.at]
  /\ WholeNumbers(E) /\ \A x \in E : x.time <= c.at
  /\ SumOf(E) <= g[s][c.at]
  /\ SessionRows(d, s) = {row} /\ c.at <= row.last
  /\ ~row.partial => SumOf(E) = c.value
  /\ Within(g, d, s, row)

(* Another has left nothing.                                               *)
Unread(d, s) == d.counters[s] = Logs!NoCounter /\ SessionRows(d, s) = {} /\ Events(d, s) = {}
Stored(g, d, s) == Unread(d, s) \/ \E row \in Row : Reads(g, d, s, row)

(* A record of Codex that was read is in the counter, unless its session   *)
(* is partial.                                                             *)
TotalRead(d, r) ==
  \/ r.value = Logs!Junk \/ r.time <= d.cutoff \/ r.time <= horizon
  \/ \E row \in SessionRows(d, r.id) :
       r.time <= row.last /\ (row.partial \/ r.value <= d.counters[r.id].value)

(* What a record of Codex does not undo.                                   *)
GoesOn(g, d, m) ==
  /\ m \in ImportDB /\ m.points = d.points /\ m.cutoff = d.cutoff
  /\ \A x \in Paths : Stored(g, m, x)
  /\ \A r \in LogRecord : TotalRead(d, r) => TotalRead(m, r)

(* A session is as sound as before when nothing of it has changed.         *)
LEMMA OtherSessions ==
  ASSUME NEW g, NEW d \in ImportDB, NEW m \in ImportDB, m.cutoff = d.cutoff, NEW x \in Paths,
         SessionRows(m, x) = SessionRows(d, x), Events(m, x) = Events(d, x), m.counters[x] = d.counters[x]
  PROVE  /\ Stored(g, d, x) => Stored(g, m, x)
         /\ \A r \in LogRecord : r.id = x /\ TotalRead(d, r) => TotalRead(m, r)
<1>1. \A row : Reads(g, d, x, row) => Reads(g, m, x, row)
  BY DEF Reads, Within
<1> QED BY <1>1 DEF Stored, Unread, TotalRead

(* A record that is only seen undoes nothing, and is read then: the        *)
(* counter is later or says the same.                                      *)
LEMMA SeesGoesOn ==
  ASSUME NEW g, NEW d \in ImportDB, NEW m, NEW r \in LogRecord, Sees(d, m, r),
         \A x \in Paths : Stored(g, d, x), FileTypes,
         NEW p \in Paths, Readable(p), disk[p].session = r.id,
         NEW k \in Entries(p), r = LogOf(p)[k], Usable(d.cutoff, r)
  PROVE  GoesOn(g, d, m) /\ TotalRead(m, r)
<1> DEFINE s == r.id
<1>1. /\ m \in ImportDB /\ m.points = d.points /\ m.cutoff = d.cutoff
      /\ m.events = d.events /\ m.counters = d.counters
      /\ \A x \in Paths \ {s} : SessionRows(m, x) = SessionRows(d, x)
  BY DEF Sees, Touched
<1>2. \A x : Events(m, x) = Events(d, x)
  BY <1>1 DEF Events
<1>3. s \in Paths /\ r.time \in Nat /\ r.value \in Int /\ horizon \in Nat
  BY DEF LogRecord, FileTypes
<1>4. ~Unread(d, s)
  <2> SUFFICES ASSUME Unread(d, s) PROVE FALSE
    OBVIOUS
  <2>1. First(d, r) /\ d.counters[s].at = 0
    BY DEF Unread, First, Logs!NoCounter
  <2> QED BY <1>3, <2>1 DEF Sees
<1>5. PICK old \in Row : Reads(g, d, s, old)
  BY <1>3, <1>4 DEF Stored
<1>6. PICK row \in Row : /\ SessionRows(m, s) = {row} /\ r.time <= row.last
                         /\ old.last <= row.last /\ (old.partial => row.partial)
  BY <1>5 DEF Sees, Touched, Reads
<1>7. d.counters[s].at \in Nat
  BY <1>3 DEF ImportDB, Mark
<1>8. Reads(g, m, s, row)
  <2>1. d.counters[s].at <= row.last
    <3>1. d.counters[s].at <= old.last /\ old.last \in Nat /\ row.last \in Nat
      BY <1>5 DEF Reads, Row
    <3> QED BY <1>6, <1>7, <3>1
  <2>2. Within(g, m, s, row)
    BY <1>1, <1>5, <1>6 DEF Reads, Within
  <2>3. /\ d.cutoff < d.counters[s].at /\ d.counters[s].at <= written
        /\ total[s] - d.counters[s].value <= spent[s] - g[s][d.counters[s].at]
        /\ WholeNumbers(Events(d, s)) /\ \A x \in Events(d, s) : x.time <= d.counters[s].at
        /\ SumOf(Events(d, s)) <= g[s][d.counters[s].at]
        /\ ~old.partial => SumOf(Events(d, s)) = d.counters[s].value
    BY <1>5 DEF Reads
  <2>4. Events(m, s) = Events(d, s) /\ m.counters = d.counters /\ m.cutoff = d.cutoff
    BY <1>1, <1>2
  <2>5. ~row.partial => SumOf(Events(d, s)) = d.counters[s].value
    BY <1>6, <2>3
  <2> QED BY ONLY <1>6, <2>1, <2>2, <2>3, <2>4, <2>5 DEF Reads
<1>9. \A x \in Paths : Stored(g, m, x)
  <2> SUFFICES ASSUME NEW x \in Paths PROVE Stored(g, m, x)
    OBVIOUS
  <2>1. CASE x = s
    BY <1>8, <2>1 DEF Stored
  <2>2. CASE x # s
    BY <1>1, <1>2, <2>2, OtherSessions
  <2> QED BY <2>1, <2>2
<1>10. ASSUME NEW z \in LogRecord, TotalRead(d, z) PROVE TotalRead(m, z)
  <2>1. CASE z.id = s
    <3>1. old.last \in Nat /\ row.last \in Nat /\ z.time \in Nat
      BY DEF Row, LogRecord
    <3>2. SessionRows(d, s) = {old}
      BY <1>5 DEF Reads
    <3>3. z.time <= old.last => z.time <= row.last
      BY <1>6, <3>1
    <3> QED BY <1>1, <1>6, <1>10, <2>1, <3>2, <3>3 DEF TotalRead
  <2>2. CASE z.id # s
    <3>1. z.id \in Paths
      BY DEF LogRecord
    <3> QED BY <1>1, <1>2, <1>10, <2>2, <3>1, OtherSessions
  <2> QED BY <2>1, <2>2
<1>11. TotalRead(m, r)
  <2>1. CASE r.time <= horizon
    BY <2>1 DEF TotalRead
  <2>2. CASE ~(r.time <= horizon)
    <3>1. horizon < r.time
      BY <1>3, <2>2
    <3>2. r.time <= d.counters[s].at => old.partial \/ r.value <= d.counters[s].value
      BY <1>5, <3>1 DEF Reads, Within
    <3>3. row.partial \/ r.value <= d.counters[s].value
      <4>1. r.time < d.counters[s].at \/ d.counters[s].value = r.value
        BY DEF Sees
      <4> QED BY <1>3, <1>6, <1>7, <3>2, <4>1
    <3> QED BY <1>1, <1>6, <3>3 DEF TotalRead
  <2> QED BY <2>1, <2>2
<1> QED BY <1>1, <1>9, <1>10, <1>11 DEF GoesOn

(* The next record of a log sets the counter of its session.               *)
SetsCounter(g, d, m, r, p, k) ==
  /\ Logs!Codex /\ FilesSound /\ Story(g)
  /\ d \in ImportDB /\ r \in LogRecord
  /\ p \in Paths /\ Readable(p) /\ disk[p].session = r.id /\ Spends(g, d.cutoff, p)
  /\ Counted(d, m, r, disk[p].created)
  /\ \A x \in Paths : Stored(g, d, x)
  /\ k \in Entries(p) /\ r = LogOf(p)[k] /\ Usable(d.cutoff, r)
  /\ \A i \in Entries(p) : i < k => TotalRead(d, LogOf(p)[i])

(* A record that is counted undoes nothing: what the counter grows by was  *)
(* used between its times, and what is not counted marks the session.      *)
LEMMA CountedGoesOn ==
  ASSUME NEW g, NEW d, NEW m, NEW r, NEW p, NEW k, SetsCounter(g, d, m, r, p, k)
  PROVE  GoesOn(g, d, m) /\ TotalRead(m, r)
<1> USE DEF SetsCounter
<1> DEFINE s == r.id
           c == d.counters[s]
           E == Events(d, s)
<1>1. /\ m \in ImportDB /\ m.points = d.points /\ m.cutoff = d.cutoff
      /\ m.counters = [d.counters EXCEPT ![s] = [at |-> r.time, value |-> r.value]]
      /\ \A x \in Paths \ {s} : SessionRows(m, x) = SessionRows(d, x)
  BY DEF Counted, Touched
<1>2. s \in Paths /\ r.time \in Nat /\ r.value \in Int /\ horizon \in Nat /\ r.value # Logs!Junk
  BY DEF LogRecord, FilesSound, FileTypes, Usable
<1>3. c \in Mark /\ c.at \in Nat /\ c.value \in Int /\ d.cutoff \in Nat
  BY <1>2 DEF ImportDB, Mark
<1>4. /\ m.counters[s].at = r.time /\ m.counters[s].value = r.value
      /\ \A x \in Paths \ {s} : m.counters[x] = d.counters[x]
  BY <1>1, <1>2 DEF ImportDB
<1>5. PICK row \in Row : /\ SessionRows(m, s) = {row} /\ r.time <= row.last
                         /\ Mean(d, r, disk[p].created) => row.partial
                         /\ \A o : SessionRows(d, s) = {o} => o.last <= row.last /\ (o.partial => row.partial)
  BY DEF Counted, Touched
<1>6. disk[p].created \in Nat /\ r.value > 0 /\ r.time <= written /\ d.cutoff < r.time
  <2>1. FileSound(p) /\ disk[p] \in LogFile
    BY DEF FilesSound, FileTypes
  <2>2. r.value > 0 /\ r.time <= written
    BY <1>2, <2>1 DEF FileSound
  <2> QED BY <2>1, <2>2 DEF LogFile, Usable
<1>7. Spends(g, d.cutoff, p) /\ disk[p].session = s /\ g[s][r.time] \in Nat
  BY <1>2 DEF Story
<1>8. total[s] - r.value <= spent[s] - g[s][r.time]
  BY <1>7 DEF Spends
(* What was counted before.                                                *)
<1>9. /\ WholeNumbers(E) /\ SumOf(E) \in Nat /\ SumOf(E) <= g[s][r.time]
      /\ \A x \in E : x.time <= r.time
      /\ ~Falls(d, r) /\ ~Baseline(d, r, disk[p].created) =>
           SumOf(E) + (r.value - c.value) <= g[s][r.time]
      /\ ~row.partial => SumOf(E) = c.value
  <2>1. CASE Unread(d, s)
    <3>1. E = {} /\ c.value = 0 /\ First(d, r)
      BY <2>1 DEF Unread, First, Logs!NoCounter
    <3>2. WholeNumbers(E) /\ SumOf(E) = 0
      BY <3>1, SumOfNone, FS_EmptySet DEF WholeNumbers
    <3>3. ~Baseline(d, r, disk[p].created) => Young(d.cutoff, p)
      BY <1>3, <1>6, <3>1 DEF Baseline, Young
    <3>4. Young(d.cutoff, p) => r.value <= g[s][r.time]
      BY <1>7 DEF Spends
    <3> HIDE DEF E, c
    <3> QED BY <1>2, <1>7, <3>1, <3>2, <3>3, <3>4
  <2>2. CASE \E old \in Row : Reads(g, d, s, old)
    <3>1. PICK old \in Row : Reads(g, d, s, old)
      BY <2>2
    <3>2. /\ WholeNumbers(E) /\ \A x \in E : x.time <= c.at
          /\ SumOf(E) <= g[s][c.at] /\ SessionRows(d, s) = {old}
          /\ ~old.partial => SumOf(E) = c.value
      BY <3>1 DEF Reads
    <3>3. SumOf(E) \in Nat
      BY <3>2, SumOfType
    <3>4. c.at <= r.time
      BY DEF Counted
    <3>5. g[s][c.at] <= g[s][r.time] /\ g[s][c.at] \in Nat
      BY <1>2, <1>3, <3>4 DEF Story
    <3>6. r.value - c.value <= g[s][r.time] - g[s][c.at]
      BY <1>7, <3>1, <3>4 DEF Reads, Within
    <3>7. \A x \in E : x.time \in Nat
      BY DEF Events, ImportDB, Event
    <3>8. old.partial => row.partial
      BY <1>5, <3>2
    <3> HIDE DEF E, c
    <3> QED BY <1>2, <1>3, <1>7, <3>2, <3>3, <3>4, <3>5, <3>6, <3>7, <3>8
  <2> QED BY <1>2, <2>1, <2>2 DEF Stored
<1>10. \A x \in Paths \ {s} : Events(m, x) = Events(d, x)
  BY DEF Counted, Events, EventOf
<1>11. /\ WholeNumbers(Events(m, s)) /\ SumOf(Events(m, s)) <= g[s][r.time]
       /\ \A x \in Events(m, s) : x.time <= r.time
       /\ ~row.partial => SumOf(Events(m, s)) = r.value
  <2>1. CASE m.events = d.events /\ Mean(d, r, disk[p].created)
    <3>1. Events(m, s) = E /\ row.partial
      BY <1>5, <2>1 DEF Events
    <3> HIDE DEF E
    <3> QED BY <1>9, <3>1
  <2>2. CASE m.events = d.events \cup {EventOf(d, r)} /\ ~Baseline(d, r, disk[p].created)
    <3> DEFINE e == EventOf(d, r)
    <3>1. e.id = s /\ e.time = r.time /\ e.delta = IF Falls(d, r) THEN 0 ELSE r.value - c.value
      BY DEF EventOf
    <3> HIDE DEF e
    <3>2. Events(m, s) = E \cup {e} /\ e \notin E
      <4>1. e \notin d.events
        BY <3>1 DEF Counted, Known
      <4>2. m.events = d.events \cup {e}
        BY <2>2 DEF e
      <4> QED BY <3>1, <4>1, <4>2 DEF Events
    <3>3. e.delta \in Nat
      BY <1>2, <1>3, <3>1 DEF Falls
    <3> HIDE DEF E, c
    <3>4. WholeNumbers(E \cup {e}) /\ SumOf(E \cup {e}) = SumOf(E) + e.delta
      BY <1>9, <3>2, <3>3, SumOfOneMore
    <3>5. SumOf(E) + e.delta <= g[s][r.time]
      <4>1. CASE Falls(d, r)
        BY <1>9, <3>1, <4>1
      <4>2. CASE ~Falls(d, r)
        BY <1>9, <2>2, <3>1, <4>2
      <4> QED BY <4>1, <4>2
    <3>6. ~row.partial => SumOf(E) + e.delta = r.value
      <4> SUFFICES ASSUME ~row.partial PROVE SumOf(E) + e.delta = r.value
        OBVIOUS
      <4>1. ~Falls(d, r) /\ SumOf(E) = c.value
        BY <1>5, <1>9 DEF Mean
      <4> QED BY <1>2, <1>3, <3>1, <4>1
    <3>7. \A x \in E \cup {e} : x.time <= r.time
      BY <1>2, <1>9, <3>1
    <3> QED BY <3>2, <3>4, <3>5, <3>6, <3>7
  <2> QED BY <2>1, <2>2 DEF Counted
<1>12. Falls(d, r) \/ c.value <= r.value
  BY <1>2, <1>3 DEF Falls
<1>13. Falls(d, r) => row.partial
  BY <1>5 DEF Mean
<1>14. Within(g, m, s, row)
  <2> SUFFICES ASSUME NEW i \in Entries(p), Usable(d.cutoff, LogOf(p)[i])
               PROVE  LET z == LogOf(p)[i] IN
                      /\ r.time <= z.time => z.value - r.value <= g[s][z.time] - g[s][r.time]
                      /\ z.time <= r.time /\ horizon < z.time => row.partial \/ z.value <= r.value
    <3>1. \A q \in Paths : Readable(q) /\ disk[q].session = s => q = p
      BY DEF FilesSound, OneFile
    <3> QED BY <1>1, <1>4, <3>1 DEF Within
  <2> DEFINE z == LogOf(p)[i]
  <2>1. /\ z \in LogRecord /\ z.time \in Nat /\ z.value \in Int /\ z.id = s /\ z.value # Logs!Junk
        /\ i < k => z.time < r.time
        /\ k < i => r.time < z.time
    <3>1. disk[p] \in LogFile /\ FileSound(p)
      BY DEF FilesSound, FileTypes
    <3>2. z \in LogRecord
      BY <3>1 DEF LogFile, LogOf, Entries
    <3>3. z.id = s /\ (i < k => z.time < r.time) /\ (k < i => r.time < z.time)
      BY <3>1 DEF FileSound
    <3> QED BY <3>2, <3>3 DEF LogRecord, Usable
  <2>2. ASSUME r.time <= z.time PROVE z.value - r.value <= g[s][z.time] - g[s][r.time]
    <3>1. CASE i = k
      BY <1>2, <1>7, <3>1
    <3>2. CASE i # k
      <4>1. k < i
        BY <1>2, <2>1, <2>2, <3>2 DEF Entries
      <4>2. Usable(d.cutoff, z) /\ Usable(d.cutoff, r)
        OBVIOUS
      <4> QED BY <1>7, <4>1, <4>2 DEF Spends
    <3> QED BY <3>1, <3>2
  <2>3. ASSUME z.time <= r.time, horizon < z.time PROVE row.partial \/ z.value <= r.value
    <3>1. CASE i = k
      BY <1>2, <3>1
    <3>2. CASE i # k
      <4>1. i < k
        BY <1>2, <2>1, <2>3, <3>2 DEF Entries
      <4>2. TotalRead(d, z)
        BY <4>1
      <4>3. PICK o \in SessionRows(d, s) : o.partial \/ z.value <= c.value
        <5>1. z.value # Logs!Junk /\ ~(z.time <= d.cutoff) /\ ~(z.time <= horizon)
          BY <1>2, <1>3, <2>1, <2>3 DEF Usable
        <5> QED BY <2>1, <4>2, <5>1 DEF TotalRead
      <4>4. SessionRows(d, s) = {o}
        <5>1. SessionRows(d, s) # {}
          OBVIOUS
        <5> QED BY <1>2, <4>3, <5>1 DEF Stored, Unread, Reads
      <4>5. o.partial => row.partial
        BY <1>5, <4>4
      <4> HIDE DEF c, z
      <4> QED BY <1>2, <1>3, <1>12, <1>13, <2>1, <4>3, <4>5
    <3> QED BY <3>1, <3>2
  <2> QED BY <2>2, <2>3
<1>15. Reads(g, m, s, row)
  <2> DEFINE M == Events(m, s)
  <2>1. WholeNumbers(M) /\ SumOf(M) <= g[s][r.time] /\ (\A x \in M : x.time <= r.time)
        /\ (~row.partial => SumOf(M) = r.value)
    BY <1>11
  <2> HIDE DEF M
  <2>2. m.cutoff = d.cutoff
    BY <1>1
  <2> QED BY ONLY <1>4, <1>5, <1>6, <1>8, <1>14, <2>1, <2>2 DEF Reads, M
<1>16. \A x \in Paths : Stored(g, m, x)
  <2> SUFFICES ASSUME NEW x \in Paths PROVE Stored(g, m, x)
    OBVIOUS
  <2>1. CASE x = s
    BY <1>15, <2>1 DEF Stored
  <2>2. CASE x # s
    BY <1>1, <1>4, <1>10, <2>2, OtherSessions
  <2> QED BY <2>1, <2>2
<1>17. ASSUME NEW z \in LogRecord, TotalRead(d, z) PROVE TotalRead(m, z)
  <2>1. CASE z.id = s
    <3>0. z.time \in Nat /\ z.value \in Int
      BY DEF LogRecord
    <3>1. CASE \E o \in SessionRows(d, s) : z.time <= o.last /\ (o.partial \/ z.value <= c.value)
      <4>1. PICK o \in SessionRows(d, s) : z.time <= o.last /\ (o.partial \/ z.value <= c.value)
        BY <3>1
      <4>2. SessionRows(d, s) = {o}
        <5>1. SessionRows(d, s) # {}
          OBVIOUS
        <5> QED BY <1>2, <4>1, <5>1 DEF Stored, Unread, Reads
      <4>3. o.last \in Nat /\ row.last \in Nat
        BY DEF SessionRows, ImportDB, Row
      <4>4. z.time <= row.last
        BY <1>5, <3>0, <4>1, <4>2, <4>3
      <4>5. row.partial \/ z.value <= r.value
        <5>1. o.partial => row.partial
          BY <1>5, <4>2
        <5> HIDE DEF c
        <5> QED BY <1>2, <1>3, <1>12, <1>13, <3>0, <4>1, <5>1
      <4> QED BY <1>4, <1>5, <2>1, <4>4, <4>5 DEF TotalRead
    <3>2. CASE ~ \E o \in SessionRows(d, s) : z.time <= o.last /\ (o.partial \/ z.value <= c.value)
      BY <1>1, <1>17, <2>1, <3>2 DEF TotalRead
    <3> QED BY <3>1, <3>2
  <2>2. CASE z.id # s
    <3>1. z.id \in Paths
      BY DEF LogRecord
    <3> QED BY <1>1, <1>4, <1>10, <1>17, <2>2, <3>1, OtherSessions
  <2> QED BY <2>1, <2>2
<1>18. TotalRead(m, r)
  BY <1>2, <1>4, <1>5 DEF TotalRead
<1> QED BY <1>1, <1>16, <1>17, <1>18 DEF GoesOn

-----------------------------------------------------------------------------
(* A record of Claude *)

Of(d, r) == Events(d, r.id)
Differ(d, r) ==
  \E x \in Of(d, r) : x.value # Logs!Unreported /\ r.value # Logs!Unreported /\ x.value # r.value
Completed(d, r) ==
  {IF x \in Of(d, r) /\ r.value # Logs!Unreported THEN [x EXCEPT !.value = r.value] ELSE x
     : x \in d.events}
NewMessage(r) == [id |-> r.id, time |-> r.time, value |-> r.value, delta |-> 0]

Reported(d, m, r) ==
  /\ Touched(d, m, r.id, r.time, FALSE)
  /\ \/ /\ m.events = d.events \ Of(d, r)
        /\ m.conflicts = d.conflicts \cup {r.id}
     \/ /\ m.events = d.events \cup {NewMessage(r)} /\ Of(d, r) = {}
        /\ m.conflicts = d.conflicts /\ r.id \notin d.conflicts
     \/ /\ m.events = Completed(d, r) /\ Of(d, r) # {} /\ ~Differ(d, r)
        /\ m.conflicts = d.conflicts /\ r.id \notin d.conflicts

(* A session that becomes partial is touched, too.                         *)
LEMMA TouchedAtAll ==
  ASSUME NEW d, NEW e, NEW s, NEW time, NEW partly, Touched(d, e, s, time, partly)
  PROVE  Touched(d, e, s, time, FALSE)
BY DEF Touched

(* A record of Claude is passed, or excluded, stored or completed.         *)
LEMMA Messages ==
  ASSUME NEW d \in ImportDB, NEW r \in LogRecord, NEW m, m = Logs!Message(d, r)
  PROVE  \/ m = d /\ (r.time <= horizon \/ r.id \in d.conflicts)
         \/ Reported(d, m, r)
<1> DEFINE told == Logs!Seen(d, r.id, r.time)
           part == Logs!Partial(told, r.id)
           marked == IF r.value = Logs!Unreported THEN part ELSE told
           struck == [part EXCEPT !.events = part.events \ Of(d, r),
                                    !.conflicts = part.conflicts \cup {r.id}]
           finished == [marked EXCEPT !.events = Completed(d, r)]
<1>1. m = IF r.time <= horizon \/ r.id \in d.conflicts THEN d
          ELSE IF Differ(d, r)
          THEN [part EXCEPT !.events = @ \ Of(d, r), !.conflicts = @ \cup {r.id}]
          ELSE IF Of(d, r) = {} THEN Logs!Store(marked, r, 0)
          ELSE [marked EXCEPT !.events =
                  {IF x \in Of(d, r) /\ r.value # Logs!Unreported
                   THEN [x EXCEPT !.value = r.value] ELSE x : x \in @}]
  BY DEF Logs!Message, Of, Events, Differ
<1>2. r.id \in Paths /\ r.time \in Nat /\ r.value \in -1 .. 2 /\ r.value \in Int
  BY DEF LogRecord
<1>3. /\ Touched(d, told, r.id, r.time, FALSE)
      /\ told.events = d.events /\ told.conflicts = d.conflicts
  BY <1>2, SeenTouches
<1> HIDE DEF told
<1>4. /\ Touched(d, part, r.id, r.time, TRUE)
      /\ part.events = d.events /\ part.conflicts = d.conflicts
  BY <1>2, <1>3, PartialTouches
<1> HIDE DEF part
<1>5. /\ Touched(d, part, r.id, r.time, FALSE) /\ Touched(d, marked, r.id, r.time, FALSE)
      /\ marked.events = d.events /\ marked.conflicts = d.conflicts
  BY <1>3, <1>4, TouchedAtAll
<1> HIDE DEF marked
<1>6. part \in ImportDB /\ marked \in ImportDB
  BY <1>5 DEF Touched
<1>7. Completed(d, r) \in SUBSET Event
  <2>1. d.events \in SUBSET Event
    BY DEF ImportDB
  <2>2. \A x \in Event : [x EXCEPT !.value = r.value] \in Event
    BY <1>2 DEF Event
  <2> QED BY <2>1, <2>2 DEF Completed
<1>8. Touched(d, struck, r.id, r.time, FALSE)
      /\ struck.events = d.events \ Of(d, r) /\ struck.conflicts = d.conflicts \cup {r.id}
  <2>1. /\ struck \in ImportDB /\ struck.sessions = part.sessions
        /\ struck.points = part.points /\ struck.cutoff = part.cutoff
        /\ struck.events = part.events \ Of(d, r)
        /\ struck.conflicts = part.conflicts \cup {r.id}
    BY <1>2, <1>6 DEF ImportDB
  <2> HIDE DEF struck
  <2> QED BY <1>2, <1>4, <1>5, <2>1, SameSessions
<1>9. Touched(d, finished, r.id, r.time, FALSE)
      /\ finished.events = Completed(d, r) /\ finished.conflicts = d.conflicts
  <2>1. /\ finished \in ImportDB /\ finished.sessions = marked.sessions
        /\ finished.points = marked.points /\ finished.cutoff = marked.cutoff
        /\ finished.events = Completed(d, r) /\ finished.conflicts = marked.conflicts
    BY <1>6, <1>7 DEF ImportDB
  <2> HIDE DEF finished
  <2> QED BY <1>2, <1>5, <2>1, SameSessions
<1>10. LET e == Logs!Store(marked, r, 0) IN
       /\ Touched(d, e, r.id, r.time, FALSE)
       /\ e.events = d.events \cup {NewMessage(r)} /\ e.conflicts = d.conflicts
  <2> DEFINE e == Logs!Store(marked, r, 0)
             flag == FALSE
             none == 0
  <2>0. Touched(d, marked, r.id, r.time, FALSE)
    BY <1>5
  <2>1. flag \in BOOLEAN /\ none \in Int /\ Touched(d, marked, r.id, r.time, flag)
    <3>1. flag \in BOOLEAN /\ none \in Int
      OBVIOUS
    <3>2. Touched(d, marked, r.id, r.time, flag)
      BY <2>0, Zenon
    <3> QED BY <3>1, <3>2
  <2>2. e = Logs!Store(marked, r, none)
    OBVIOUS
  <2> HIDE DEF flag, none
  <2>3. /\ Touched(d, Logs!Store(marked, r, none), r.id, r.time, flag)
        /\ Logs!Store(marked, r, none).conflicts = marked.conflicts
        /\ Logs!Store(marked, r, none).events =
              marked.events \cup {[id |-> r.id, time |-> r.time, value |-> r.value, delta |-> none]}
    BY <1>2, <2>1, StoreTouches
  <2> QED BY <1>5, <2>2, <2>3 DEF NewMessage, flag, none
<1>11. CASE r.time <= horizon \/ r.id \in d.conflicts
  BY <1>1, <1>11
<1>12. CASE ~(r.time <= horizon \/ r.id \in d.conflicts) /\ Differ(d, r)
  <2>1. m = struck
    BY <1>1, <1>6, <1>12 DEF ImportDB
  <2> QED BY <1>8, <2>1 DEF Reported
<1>13. CASE ~(r.time <= horizon \/ r.id \in d.conflicts) /\ ~Differ(d, r) /\ Of(d, r) = {}
  <2>1. m = Logs!Store(marked, r, 0)
    BY <1>1, <1>13
  <2> QED BY <1>10, <1>13, <2>1 DEF Reported
<1>14. CASE ~(r.time <= horizon \/ r.id \in d.conflicts) /\ ~Differ(d, r) /\ Of(d, r) # {}
  <2>1. m = finished
    <3>1. marked.events = d.events
      BY <1>5
    <3>2. m = [marked EXCEPT !.events =
                  {IF x \in Of(d, r) /\ r.value # Logs!Unreported
                   THEN [x EXCEPT !.value = r.value] ELSE x : x \in marked.events}]
      BY <1>1, <1>6, <1>14 DEF ImportDB
    <3> QED BY <3>1, <3>2 DEF Completed
  <2> QED BY <1>9, <1>14, <2>1 DEF Reported
<1> QED BY <1>11, <1>12, <1>13, <1>14

(* One event is stored of a message, and none of one that is excluded.     *)
MessageStored(d, s) ==
  /\ \A x, y \in Events(d, s) : x = y
  /\ s \in d.conflicts => Events(d, s) = {}
  /\ Events(d, s) # {} => \E row \in SessionRows(d, s) : 0 < row.last

(* A message that was read is stored as it was reported, or excluded.      *)
MessageRead(d, r) ==
  \/ r.value <= 0 \/ r.time <= d.cutoff \/ horizon # 0
  \/ r.id \in d.conflicts \/ \E x \in Events(d, r.id) : x.value = r.value

MessagesGoOn(d, m) ==
  /\ m \in ImportDB /\ m.points = d.points /\ m.cutoff = d.cutoff
  /\ horizon = 0 => \A x \in Paths : MessageStored(m, x)
  /\ \A r \in LogRecord : MessageRead(d, r) => MessageRead(m, r)

(* A message is as sound as before when nothing of it has changed.         *)
LEMMA OtherMessages ==
  ASSUME NEW d \in ImportDB, NEW m \in ImportDB, m.cutoff = d.cutoff, NEW x \in Paths,
         SessionRows(m, x) = SessionRows(d, x), Events(m, x) = Events(d, x),
         x \in m.conflicts <=> x \in d.conflicts
  PROVE  /\ MessageStored(d, x) => MessageStored(m, x)
         /\ \A r \in LogRecord : r.id = x /\ MessageRead(d, r) => MessageRead(m, r)
BY DEF MessageStored, MessageRead

(* A record of Claude undoes nothing, and is read then.                    *)
LEMMA MessageGoesOn ==
  ASSUME NEW d \in ImportDB, NEW r \in LogRecord, 1 <= r.time, horizon \in Nat,
         horizon = 0 => \A x \in Paths : MessageStored(d, x),
         NEW m, m = Logs!Message(d, r)
  PROVE  MessagesGoOn(d, m) /\ MessageRead(m, r)
<1> DEFINE s == r.id
<1>1. s \in Paths /\ r.time \in Nat /\ r.value \in Int
  BY DEF LogRecord
<1>2. CASE m = d /\ (r.time <= horizon \/ s \in d.conflicts)
  <2>1. r.time <= horizon => horizon # 0
    BY <1>1
  <2> QED BY <1>2, <2>1 DEF MessagesGoOn, MessageRead
<1>3. CASE Reported(d, m, r)
  <2>1. /\ m \in ImportDB /\ m.points = d.points /\ m.cutoff = d.cutoff
        /\ \A x \in Paths \ {s} : SessionRows(m, x) = SessionRows(d, x)
        /\ \E row \in SessionRows(m, s) : r.time <= row.last /\ row \in Row
    BY <1>3 DEF Reported, Touched
  <2>2. \A x \in d.events : x \in Event /\ x.value \in Int
    BY DEF ImportDB, Event
  <2>3. \A x \in d.events : LET y == [x EXCEPT !.value = r.value] IN
                            y.id = x.id /\ y.value = r.value
    BY <2>2 DEF Event
  <2>4. /\ \A x \in Paths \ {s} : Events(m, x) = Events(d, x)
        /\ m.conflicts \in {d.conflicts, d.conflicts \cup {s}}
    <3>1. CASE m.events = d.events \ Of(d, r) /\ m.conflicts = d.conflicts \cup {s}
      BY <3>1 DEF Events, Of
    <3>2. CASE m.events = d.events \cup {NewMessage(r)} /\ m.conflicts = d.conflicts
      BY <3>2 DEF Events, NewMessage
    <3>3. CASE m.events = Completed(d, r) /\ m.conflicts = d.conflicts
      <4> SUFFICES ASSUME NEW x \in Paths \ {s} PROVE Events(m, x) = Events(d, x)
        BY <3>3
      <4>1. \A y \in Events(d, x) : y \in Events(m, x)
        BY <3>3 DEF Completed, Events, Of
      <4>2. \A y \in Events(m, x) : y \in Events(d, x)
        BY <2>3, <3>3 DEF Completed, Events, Of
      <4> QED BY <4>1, <4>2
    <3> QED BY <1>3, <3>1, <3>2, <3>3 DEF Reported
  <2>5. ASSUME horizon = 0
        PROVE  /\ MessageStored(m, s)
               /\ s \in m.conflicts \/ r.value <= 0 \/ \E x \in Events(m, s) : x.value = r.value
               /\ \A z \in LogRecord : z.id = s /\ MessageRead(d, z) => MessageRead(m, z)
    <3>0. MessageStored(d, s)
      BY <1>1, <2>5
    <3>1. \E row \in SessionRows(m, s) : 0 < row.last
      <4>1. \A row \in Row : row.last \in Nat
        BY DEF Row
      <4> QED BY <1>1, <2>1, <4>1
    <3>2. CASE m.events = d.events \ Of(d, r) /\ m.conflicts = d.conflicts \cup {s}
      <4>1. Events(m, s) = {}
        BY <3>2 DEF Events, Of
      <4> QED BY <2>1, <3>2, <4>1 DEF MessageStored, MessageRead
    <3>3. CASE /\ m.events = d.events \cup {NewMessage(r)} /\ Of(d, r) = {}
               /\ m.conflicts = d.conflicts /\ s \notin d.conflicts
      <4>1. Events(m, s) = {NewMessage(r)} /\ NewMessage(r).value = r.value /\ Events(d, s) = {}
        BY <3>3 DEF Events, Of, NewMessage
      <4> QED BY <2>1, <3>1, <3>3, <4>1 DEF MessageStored, MessageRead
    <3>4. CASE /\ m.events = Completed(d, r) /\ Of(d, r) # {} /\ ~Differ(d, r)
               /\ m.conflicts = d.conflicts /\ s \notin d.conflicts
      <4>1. PICK x \in Events(d, s) : Events(d, s) = {x}
        BY <3>0, <3>4 DEF Of, MessageStored
      <4>2. x \in d.events /\ x.id = s /\ x.value \in Int
        BY <2>2 DEF Events
      <4> DEFINE y == IF r.value # Logs!Unreported THEN [x EXCEPT !.value = r.value] ELSE x
      <4>3. y.id = s /\ y.value = IF r.value # Logs!Unreported THEN r.value ELSE x.value
        BY <2>3, <4>2
      <4>4. Events(m, s) = {y}
        <5>1. \A e \in Events(m, s) : e = y
          BY <2>3, <3>4, <4>1, <4>2 DEF Completed, Events, Of
        <5>2. y \in Events(m, s)
          <6>1. y \in m.events
            BY <3>4, <4>1, <4>2 DEF Completed, Of
          <6> HIDE DEF y
          <6> QED BY <4>3, <6>1 DEF Events
        <5> HIDE DEF y
        <5> QED BY <5>1, <5>2
      <4>5. x.value > 0 => y.value = x.value
        <5>1. x.value # 0 /\ r.value # 0 => r.value = x.value
          BY <3>4, <4>1 DEF Differ, Of, Logs!Unreported
        <5> HIDE DEF y
        <5> QED BY <4>2, <4>3, <5>1 DEF Logs!Unreported
      <4>6. r.value > 0 => y.value = r.value
        <5> HIDE DEF y
        <5> QED BY <1>1, <4>3 DEF Logs!Unreported
      <4> HIDE DEF y
      <4>7. MessageStored(m, s)
        BY <3>1, <3>4, <4>4 DEF MessageStored
      <4>8. ASSUME NEW z \in LogRecord, z.id = s, MessageRead(d, z) PROVE MessageRead(m, z)
        <5>1. z.value \in Int
          BY DEF LogRecord
        <5> QED BY <2>1, <3>4, <4>1, <4>4, <4>5, <4>8, <5>1 DEF MessageRead
      <4> QED BY <1>1, <4>4, <4>6, <4>7, <4>8
    <3> QED BY <1>3, <3>2, <3>3, <3>4 DEF Reported
  <2>6. horizon = 0 => \A x \in Paths : MessageStored(m, x)
    BY <2>1, <2>4, <2>5, OtherMessages
  <2>7. \A z \in LogRecord : MessageRead(d, z) => MessageRead(m, z)
    <3> SUFFICES ASSUME NEW z \in LogRecord, MessageRead(d, z) PROVE MessageRead(m, z)
      OBVIOUS
    <3>1. z.id \in Paths
      BY DEF LogRecord
    <3>2. CASE horizon # 0
      BY <3>2 DEF MessageRead
    <3>3. CASE horizon = 0 /\ z.id = s
      BY <2>5, <3>3
    <3>4. CASE z.id # s
      BY <2>1, <2>4, <3>1, <3>4, OtherMessages
    <3> QED BY <3>2, <3>3, <3>4
  <2>8. MessageRead(m, r)
    BY <2>5 DEF MessageRead
  <2> QED BY <2>1, <2>6, <2>7, <2>8 DEF MessagesGoOn
<1> QED BY <1>2, <1>3, Messages

-----------------------------------------------------------------------------
(* The records of a file *)

(* What is done with a record, by the tool that wrote it.                  *)
LEMMA RecordIs ==
  \A d, r, created :
    Logs!Record(d, r, created) =
      IF r.value = Logs!Junk \/ r.time <= d.cutoff THEN d
      ELSE IF Logs!Codex THEN Logs!Snapshot(d, r, created) ELSE Logs!Message(d, r)
BY DEF Logs!Record

(* A record leaves a store.                                                *)
LEMMA RecordTyped ==
  ASSUME NEW d \in ImportDB, NEW r \in LogRecord, NEW created \in Nat
  PROVE  Logs!Record(d, r, created) \in ImportDB
<1>1. Logs!Snapshot(d, r, created) \in ImportDB
  BY Snapshots DEF Sees, Counted, Touched
<1>2. Logs!Message(d, r) \in ImportDB
  BY Messages DEF Reported, Touched
<1> QED BY <1>1, <1>2, RecordIs

(* What holds of the store before the first record, and after each one if  *)
(* it held before it, holds after the last.                                *)
LEMMA RecordsKeep ==
  ASSUME NEW d \in ImportDB, NEW news \in Seq(LogRecord), NEW created \in Nat,
         NEW H, <<0, d>> \in H,
         \A i \in 1 .. Len(news), e \in ImportDB :
           <<i - 1, e>> \in H => <<i, Logs!Record(e, news[i], created)>> \in H
  PROVE  /\ Logs!Records(d, news, created) \in ImportDB
         /\ <<Len(news), Logs!Records(d, news, created)>> \in H
<1> DEFINE n == Len(news)
           After(i, e) == Logs!Record(e, news[i], created)
           Is(f) == f = [i \in 0 .. n |-> IF i = 0 THEN d ELSE After(i, f[i - 1])]
           V == ImportDB
           kept == CHOOSE f : Is(f)
<1>0. n \in Nat /\ d \in V /\ \A i \in 1 .. n : news[i] \in LogRecord
  OBVIOUS
<1>1. Logs!Records(d, news, created) = kept[n]
  BY DEF Logs!Records
<1>2. ASSUME NEW i \in 1 .. n, NEW e \in V PROVE After(i, e) \in V
  BY <1>0, RecordTyped
<1>3. \E f : Is(f)
  <2> DEFINE step == [p \in (1 .. n) \X V |-> After(p[1], p[2])]
  <2>2. step \in [(1 .. n) \X V -> V]
    <3>1. \A p \in (1 .. n) \X V : p[1] \in 1 .. n /\ p[2] \in V
      OBVIOUS
    <3> HIDE DEF n, V, After
    <3> QED BY <1>2, <3>1
  <2>3. \A i \in 1 .. n, k \in V : step[<<i, k>>] = After(i, k)
    <3> HIDE DEF n, V, After
    <3> QED OBVIOUS
  <2>4. PICK f \in [0 .. n -> V] : Leads(f, d, step, n)
    <3> HIDE DEF step, V, n
    <3> QED BY <1>0, <2>2, Stepwise
  <2>5. \A i \in 0 .. n : f[i] = IF i = 0 THEN d ELSE After(i, f[i - 1])
    <3> SUFFICES ASSUME NEW i \in 0 .. n, i # 0 PROVE f[i] = After(i, f[i - 1])
      BY <2>4 DEF Leads
    <3>1. i \in 1 .. n /\ i - 1 \in 0 .. n
      BY <1>0
    <3> HIDE DEF step, V, n, After
    <3> QED BY <2>3, <2>4, <3>1 DEF Leads
  <2>6. f = [i \in 0 .. n |-> f[i]]
    BY <2>4
  <2> HIDE DEF step, V, n, After
  <2>7. Is(f)
    BY <2>5, <2>6
  <2> QED BY <2>7
<1>4. Is(kept)
  <2> HIDE DEF Is
  <2> QED BY <1>3
<1> HIDE DEF kept
<1>5. kept[0] = d /\ \A i \in 1 .. n : kept[i] = After(i, kept[i - 1])
  <2> HIDE DEF After
  <2> QED BY <1>0, <1>4
<1> DEFINE G == {i \in 0 .. n : kept[i] \in V /\ <<i, kept[i]>> \in H}
<1>6. 0 \in G
  BY SMTT(40), <1>0, <1>5
<1>7. ASSUME NEW i \in 0 .. n - 1, i \in G PROVE i + 1 \in G
  <2>1. i + 1 \in 1 .. n /\ i + 1 \in 0 .. n /\ (i + 1) - 1 = i
    BY <1>0
  <2>2. kept[i + 1] = After(i + 1, kept[i])
    <3> HIDE DEF After
    <3> QED BY <1>5, <2>1
  <2>3. kept[i] \in V /\ <<i, kept[i]>> \in H
    BY <1>7
  <2>4. kept[i + 1] \in V
    <3> HIDE DEF After
    <3> QED BY <1>2, <2>1, <2>2, <2>3
  <2>5. <<i + 1, After(i + 1, kept[i])>> \in H
    BY <2>1, <2>3
  <2> HIDE DEF After
  <2> QED BY <2>1, <2>2, <2>4, <2>5
<1>8. n \in G
  <2>1. \A i \in 0 .. n : i \in G
    <3> HIDE DEF G
    <3> QED BY <1>0, <1>6, <1>7, Upward
  <2> QED BY <1>0, <2>1
<1> QED BY <1>1, <1>8

(* Of either tool.                                                         *)
Sound(g, d) ==
  IF Logs!Codex THEN \A x \in Paths : Stored(g, d, x)
  ELSE horizon = 0 => \A x \in Paths : MessageStored(d, x)
IsRead(d, r) == IF Logs!Codex THEN TotalRead(d, r) ELSE MessageRead(d, r)

(* The store goes from one that is sound to another that has all that was  *)
(* read.                                                                   *)
Carries(g, d, m) ==
  /\ m \in ImportDB /\ m.points = d.points /\ m.cutoff = d.cutoff
  /\ Sound(g, m)
  /\ \A r \in LogRecord : IsRead(d, r) => IsRead(m, r)

(* The story is one of all logs there are.                                 *)
Told(g, k) ==
  Logs!Codex => Story(g) /\ \A p \in Paths : Readable(p) => Spends(g, k, p)

(* What the entries of a file are.                                         *)
LEMMA EntryTyped ==
  ASSUME FilesSound, NEW p \in Paths, NEW k \in Entries(p)
  PROVE  /\ LogOf(p)[k] \in LogRecord /\ LogOf(p)[k].id = disk[p].session
         /\ 1 <= LogOf(p)[k].time /\ k \in Nat /\ disk[p].created \in Nat
<1>1. disk[p] \in LogFile /\ FileSound(p)
  BY DEF FilesSound, FileTypes
<1> QED BY <1>1 DEF LogFile, LogOf, Entries, FileSound

(* One record of a file whose records before it were read.                 *)
LEMMA RecordCarries ==
  ASSUME FilesSound, NEW g, NEW d \in ImportDB, Told(g, d.cutoff), Sound(g, d),
         NEW p \in Paths, Readable(p), NEW k \in Entries(p),
         \A i \in Entries(p) : i < k => IsRead(d, LogOf(p)[i]),
         NEW m, m = Logs!Record(d, LogOf(p)[k], disk[p].created)
  PROVE  Carries(g, d, m) /\ IsRead(m, LogOf(p)[k])
<1> DEFINE r == LogOf(p)[k]
<1>1. /\ r \in LogRecord /\ r.id = disk[p].session /\ 1 <= r.time
      /\ disk[p].created \in Nat /\ r.time \in Nat
  BY EntryTyped DEF LogRecord
<1>2. horizon \in Nat /\ d.cutoff \in Nat
  BY DEF FilesSound, FileTypes, ImportDB
<1>3. CASE r.value = Logs!Junk \/ r.time <= d.cutoff
  <2>1. m = d
    BY <1>3, RecordIs
  <2>2. IsRead(d, r)
    BY <1>3 DEF IsRead, TotalRead, MessageRead, Logs!Junk
  <2> QED BY <2>1, <2>2 DEF Carries
<1>4. CASE ~(r.value = Logs!Junk \/ r.time <= d.cutoff) /\ Logs!Codex
  <2>1. m = Logs!Snapshot(d, r, disk[p].created)
    BY <1>4, RecordIs
  <2>2. Usable(d.cutoff, r)
    BY <1>1, <1>2, <1>4 DEF Usable
  <2>3. \A i \in Entries(p) : i < k => TotalRead(d, LogOf(p)[i])
    BY <1>4 DEF IsRead
  <2>4. Story(g) /\ Spends(g, d.cutoff, p) /\ \A x \in Paths : Stored(g, d, x)
    BY <1>4 DEF Told, Sound
  <2> HIDE DEF r
  <2>5. r = LogOf(p)[k] /\ disk[p].session = r.id /\ FileTypes
    BY <1>1 DEF r, FilesSound
  <2>6. CASE m = d /\ Known(d, r)
    <3>1. PICK x \in d.events : x.id = r.id /\ x.time = r.time
      BY <2>6 DEF Known
    <3>2. x \in Events(d, r.id) /\ r.id \in Paths
      BY <1>1, <3>1 DEF Events, LogRecord
    <3>3. PICK old \in Row : Reads(g, d, r.id, old)
      BY <2>4, <3>2 DEF Stored, Unread
    <3> DEFINE c == d.counters[r.id]
    <3>4. r.time <= c.at /\ c.at <= old.last /\ c.at \in Nat /\ old.last \in Nat
      BY <3>1, <3>2, <3>3 DEF Reads, ImportDB, Mark, Row
    <3>5. horizon < r.time => old.partial \/ r.value <= c.value
      BY <2>2, <2>5, <3>3, <3>4 DEF Reads, Within
    <3>6. SessionRows(d, r.id) = {old} /\ r.time <= old.last
      BY SMTT(40), <1>1, <3>3, <3>4 DEF Reads
    <3> HIDE DEF c
    <3>7. TotalRead(d, r)
      BY <1>1, <1>2, <3>5, <3>6 DEF TotalRead, c
    <3> QED BY <1>4, <2>4, <2>5, <2>6, <3>7 DEF Carries, IsRead, Sound
  <2>7. CASE Sees(d, m, r)
    <3>1. GoesOn(g, d, m) /\ TotalRead(m, r)
      BY <1>1, <2>2, <2>4, <2>5, <2>7, SeesGoesOn
    <3> QED BY <1>4, <2>5, <3>1 DEF Carries, IsRead, GoesOn, Sound
  <2>8. CASE Counted(d, m, r, disk[p].created)
    <3>1. GoesOn(g, d, m) /\ TotalRead(m, r)
      <4>1. /\ r \in LogRecord /\ Logs!Codex /\ Spends(g, d.cutoff, p) /\ Story(g)
            /\ \A x \in Paths : Stored(g, d, x)
        BY <1>1, <1>4, <2>4 DEF r
      <4>2. SetsCounter(g, d, m, r, p, k)
        BY <2>2, <2>3, <2>5, <2>8, <4>1 DEF SetsCounter
      <4> QED BY <4>2, CountedGoesOn
    <3> QED BY <1>4, <2>5, <3>1 DEF Carries, IsRead, GoesOn, Sound
  <2> QED BY <1>1, <2>1, <2>6, <2>7, <2>8, Snapshots DEF r
<1>5. CASE ~(r.value = Logs!Junk \/ r.time <= d.cutoff) /\ ~Logs!Codex
  <2>1. m = Logs!Message(d, r)
    BY <1>5, RecordIs
  <2>2. horizon = 0 => \A x \in Paths : MessageStored(d, x)
    BY <1>5 DEF Sound
  <2> HIDE DEF r
  <2>3. MessagesGoOn(d, m) /\ MessageRead(m, r)
    BY <1>1, <1>2, <2>1, <2>2, MessageGoesOn
  <2> QED BY <1>5, <2>3 DEF Carries, IsRead, MessagesGoOn, Sound, r
<1> QED BY <1>3, <1>4, <1>5

(* Points and flags of a scan are not part of what is stored.              *)
LEMMA SameStore ==
  ASSUME NEW g, NEW d, NEW m, m.events = d.events, m.counters = d.counters,
         m.sessions = d.sessions, m.conflicts = d.conflicts, m.cutoff = d.cutoff
  PROVE  /\ Sound(g, d) => Sound(g, m)
         /\ \A r : IsRead(d, r) => IsRead(m, r)
<1>1. \A x : SessionRows(m, x) = SessionRows(d, x) /\ Events(m, x) = Events(d, x)
  BY DEF SessionRows, Events
<1>2. \A x : Stored(g, d, x) => Stored(g, m, x)
  BY SMTT(40), <1>1 DEF Stored, Unread, Reads, Within
<1>3. \A x : MessageStored(d, x) => MessageStored(m, x)
  BY <1>1 DEF MessageStored
<1>4. \A r : (TotalRead(d, r) => TotalRead(m, r)) /\ (MessageRead(d, r) => MessageRead(m, r))
  BY <1>1 DEF TotalRead, MessageRead
<1> QED BY <1>2, <1>3, <1>4 DEF Sound, IsRead

(* The records of a file but for one that is not written to its end.       *)
LEMMA WholeLog ==
  ASSUME FilesSound, NEW p \in Paths
  PROVE  LET W == Logs!Whole(disk[p]) IN
         /\ W \in Seq(LogRecord) /\ Len(W) \in Nat /\ Len(W) <= Len(LogOf(p))
         /\ LogOf(p) \in Seq(LogRecord)
         /\ \A i \in 1 .. Len(W) : i \in Entries(p) /\ W[i] = LogOf(p)[i]
         /\ Len(W) = IF disk[p].torn THEN Len(LogOf(p)) - 1 ELSE Len(LogOf(p))
<1> DEFINE log == LogOf(p)
<1>1. log \in Seq(LogRecord) /\ (disk[p].torn => log # <<>>) /\ disk[p].torn \in BOOLEAN
  BY DEF FilesSound, FileTypes, LogFile, LogOf, FileSound
<1>2. Logs!Whole(disk[p]) = IF disk[p].torn THEN SubSeq(log, 1, Len(log) - 1) ELSE log
  BY DEF Logs!Whole, Logs!Front, LogOf
<1>3. Entries(p) = 1 .. Len(log)
  BY DEF Entries, LogOf
<1> HIDE DEF log
<1>4. Len(log) \in Nat /\ (log # <<>> => Len(log) > 0)
  BY <1>1
<1>5. CASE disk[p].torn
  <2> DEFINE W == SubSeq(log, 1, Len(log) - 1)
  <2>0. Len(log) - 1 \in Nat /\ log \in Seq(LogRecord)
    BY <1>1, <1>4, <1>5
  <2>1. W \in Seq(LogRecord) /\ Len(W) = Len(log) - 1 /\ \A i \in 1 .. Len(W) : W[i] = log[i]
    <3> DEFINE n == Len(log) - 1
    <3>1. \A i \in 1 .. n : log[i] \in LogRecord
      BY <2>0
    <3> HIDE DEF n
    <3>2. SubSeq(log, 1, n) = [i \in 1 .. n |-> log[i]]
      BY <2>0, <3>1 DEF n
    <3>3. n \in Nat
      BY <2>0 DEF n
    <3>4. Len(SubSeq(log, 1, n)) = n
      BY <3>1, <3>2, <3>3
    <3> QED BY <3>1, <3>2, <3>3, <3>4 DEF n
  <2> HIDE DEF W
  <2>2. Logs!Whole(disk[p]) = W
    BY <1>2, <1>5 DEF W
  <2> QED BY <1>1, <1>3, <1>4, <1>5, <2>1, <2>2 DEF log
<1>6. CASE ~disk[p].torn
  BY <1>1, <1>2, <1>3, <1>4, <1>6 DEF log
<1> QED BY <1>5, <1>6

(* The import of a file carries the store on, and the file is read.        *)
LEMMA ImportedCarries ==
  ASSUME FilesSound, NEW g, db \in ImportDB, Told(g, db.cutoff), Sound(g, db),
         NEW p \in Paths, Readable(p),
         \A i \in Entries(p) : i <= Logs!Begin(db, p) => IsRead(db, LogOf(p)[i]),
         Logs!Begin(db, p) \in Nat
  PROVE  LET W == Logs!Whole(disk[p])
             b == Logs!Begin(db, p)
             news == SubSeq(W, b + 1, Len(W))
             m == Logs!Records(db, news, disk[p].created)
         IN Carries(g, db, m) /\ \A i \in 1 .. Len(W) : IsRead(m, LogOf(p)[i])
<1> DEFINE W == Logs!Whole(disk[p])
           b == Logs!Begin(db, p)
           news == SubSeq(W, b + 1, Len(W))
           created == disk[p].created
           m == Logs!Records(db, news, created)
           Upto(i, e) == Carries(g, db, e) /\ \A j \in Entries(p) : j <= b + i => IsRead(e, LogOf(p)[j])
           H == {w \in Nat \X ImportDB : Upto(w[1], w[2])}
<1>1. /\ W \in Seq(LogRecord) /\ Len(W) \in Nat
      /\ \A i \in 1 .. Len(W) : i \in Entries(p) /\ W[i] = LogOf(p)[i]
  BY WholeLog
<1>2. created \in Nat
  BY DEF FilesSound, FileTypes, LogFile
<1>3. b \in Nat
  OBVIOUS
<1> HIDE DEF W, b, created
<1>4. /\ news \in Seq(LogRecord) /\ Len(news) \in Nat
      /\ Len(news) = IF b + 1 <= Len(W) THEN Len(W) - b ELSE 0
      /\ \A i \in 1 .. Len(news) : news[i] = W[b + i]
  BY <1>1, <1>3
<1> HIDE DEF news
<1>5. <<0, db>> \in H
  <2>1. Upto(0, db)
    BY <1>3 DEF Carries, Entries, b
  <2> HIDE DEF Upto
  <2> QED BY <2>1
<1>6. ASSUME NEW i \in 1 .. Len(news), NEW e \in ImportDB, <<i - 1, e>> \in H
      PROVE  <<i, Logs!Record(e, news[i], created)>> \in H
  <2> DEFINE k == b + i
             n == Logs!Record(e, news[i], created)
  <2>1. Upto(i - 1, e)
    <3> HIDE DEF Upto
    <3> QED BY <1>6
  <2>2. k \in 1 .. Len(W) /\ k \in Entries(p) /\ news[i] = LogOf(p)[k]
    BY <1>1, <1>3, <1>4
  <2>3. \A j \in Entries(p) : j < k => IsRead(e, LogOf(p)[j])
    BY SMTT(40), <1>3, <2>1, <2>2 DEF Entries
  <2>4. Told(g, e.cutoff) /\ Sound(g, e)
    BY <2>1 DEF Carries
  <2>5. n = Logs!Record(e, LogOf(p)[k], disk[p].created)
    BY <2>2 DEF created
  <2> HIDE DEF n, k
  <2>6. Carries(g, e, n) /\ IsRead(n, LogOf(p)[k])
    BY <2>2, <2>3, <2>4, <2>5, RecordCarries
  <2>7. Carries(g, db, n)
    BY <2>1, <2>6 DEF Carries
  <2>8. ASSUME NEW j \in Entries(p), j <= b + i PROVE IsRead(n, LogOf(p)[j])
    <3>1. CASE j = k
      BY <2>6, <3>1
    <3>2. CASE j # k
      <4>1. j < k
        BY <1>3, <1>4, <2>8, <3>2 DEF Entries, k
      <4>2. LogOf(p)[j] \in LogRecord
        BY EntryTyped
      <4> QED BY <2>3, <2>6, <4>1, <4>2 DEF Carries
    <3> QED BY <3>1, <3>2
  <2>9. Upto(i, n)
    BY <2>7, <2>8
  <2>10. n \in ImportDB /\ i \in Nat
    BY <2>7 DEF Carries
  <2> HIDE DEF Upto
  <2> QED BY <2>9, <2>10 DEF n
<1>7. m \in ImportDB /\ <<Len(news), m>> \in H
  <2> HIDE DEF H
  <2> QED BY <1>2, <1>4, <1>5, <1>6, RecordsKeep
<1>8. Upto(Len(news), m)
  <2> HIDE DEF m, Upto
  <2> QED BY <1>7
<1> HIDE DEF m
<1>9. \A i \in 1 .. Len(W) : IsRead(m, LogOf(p)[i])
  BY <1>1, <1>3, <1>4, <1>8 DEF Entries
<1> QED BY <1>8, <1>9 DEF m, news, created, W, b

-----------------------------------------------------------------------------
(* The invariant *)

(* What a file was read to.                                                *)
PointSound(d, p) ==
  LET c == d.points[p] IN
  /\ disk[p].state = "never" => c = Logs!NoPoint
  /\ c.offset = 0 \/ c.offset <= c.size
  /\ \E i \in Nat : c.offset = 2 * i
  /\ c.stamp <= written
  /\ disk[p].state = "file" /\ disk[p].torn /\ Logs!Shrunk(d, p) => Logs!Size(disk[p]) < c.size

(* It was read to its point, unless it is to be read anew.                 *)
ReadTo(d, p) ==
  Readable(p) /\ ~Logs!Shrunk(d, p) =>
    \A i \in Entries(p) : 2 * i <= d.points[p].offset => IsRead(d, LogOf(p)[i])

StoreSound(d) ==
  /\ d \in ImportDB
  /\ \A p \in Paths : PointSound(d, p) /\ ReadTo(d, p)
  /\ \E g : Told(g, d.cutoff) /\ Sound(g, d)

NothingUsed == written = 0 => \A s \in Paths : total[s] = 0

ImportInv == FilesSound /\ NothingUsed /\ StoreSound(db)

ofFiles == <<logTool, disk, total, written, horizon, spent>>

(* What is said of the files depends on the variables of the files.        *)
LEMMA SameFiles ==
  ASSUME UNCHANGED ofFiles
  PROVE  /\ FilesSound' <=> FilesSound
         /\ NothingUsed' <=> NothingUsed
         /\ \A d : StoreSound(d)' <=> StoreSound(d)
<1>1. UNCHANGED <<logTool, disk, total, written, horizon, spent>>
  BY DEF ofFiles
<1>2. FilesSound' <=> FilesSound
  BY <1>1 DEF FilesSound, FileTypes, FileSound, OneFile, Readable, Entries, LogOf, Logs!Codex
<1>3. \A g, k : Told(g, k)' <=> Told(g, k)
  BY <1>1 DEF Told, Story, Spends, Readable, Entries, LogOf, Logs!Codex, Young, Usable
<1>4. \A g, d : Sound(g, d)' <=> Sound(g, d)
  BY <1>1 DEF Sound, Stored, Unread, Reads, Within, MessageStored, SessionRows, Events, Readable,
              Entries, LogOf, Logs!Codex, Usable
<1>5. \A d, r : IsRead(d, r)' <=> IsRead(d, r)
  BY <1>1 DEF IsRead, TotalRead, MessageRead, Logs!Codex
<1>6. \A d, p : PointSound(d, p)' <=> PointSound(d, p)
  BY <1>1 DEF PointSound, Logs!Shrunk, Logs!Size
<1>7. \A d, p : ReadTo(d, p)' <=> ReadTo(d, p)
  BY ZenonT(60), <1>1, <1>5 DEF ReadTo, Logs!Shrunk, Logs!Size, Entries, Readable, LogOf
<1>8. \A d : StoreSound(d)' <=> StoreSound(d)
  BY <1>3, <1>4, <1>6, <1>7 DEF StoreSound
<1>9. NothingUsed' <=> NothingUsed
  BY <1>1 DEF NothingUsed
<1> QED BY <1>2, <1>8, <1>9

(* The store is sound as long as it has what was read.                     *)
LEMMA CarriedSound ==
  ASSUME NEW d, StoreSound(d), NEW g, Told(g, d.cutoff), NEW m, Carries(g, d, m), FilesSound
  PROVE  StoreSound(m)
<1>1. m.points = d.points /\ m.cutoff = d.cutoff /\ m \in ImportDB /\ Sound(g, m)
  BY DEF Carries
<1>2. \A p \in Paths : PointSound(m, p)
  BY <1>1 DEF StoreSound, PointSound, Logs!Shrunk
<1>3. ASSUME NEW p \in Paths PROVE ReadTo(m, p)
  <2> SUFFICES ASSUME Readable(p), ~Logs!Shrunk(m, p), NEW i \in Entries(p),
                      2 * i <= m.points[p].offset
               PROVE  IsRead(m, LogOf(p)[i])
    BY DEF ReadTo
  <2>1. ReadTo(d, p) /\ ~Logs!Shrunk(d, p) /\ 2 * i <= d.points[p].offset
    BY <1>1 DEF StoreSound, Logs!Shrunk
  <2>2. IsRead(d, LogOf(p)[i]) /\ LogOf(p)[i] \in LogRecord
    BY <2>1, EntryTyped DEF ReadTo
  <2> QED BY <2>2 DEF Carries
<1> QED BY <1>1, <1>2, <1>3 DEF StoreSound

(* What a scan marks as partial is as it was.                              *)
LEMMA PartialSound ==
  ASSUME NEW d, StoreSound(d), NEW b \in BOOLEAN, NEW m, m = [d EXCEPT !.partial = b], FilesSound
  PROVE  StoreSound(m)
<1>1. PICK g : Told(g, d.cutoff) /\ Sound(g, d)
  BY DEF StoreSound
<1>2. d \in ImportDB
  BY DEF StoreSound
<1>3. /\ m \in ImportDB /\ m.events = d.events /\ m.counters = d.counters /\ m.points = d.points
      /\ m.sessions = d.sessions /\ m.conflicts = d.conflicts /\ m.cutoff = d.cutoff
  BY <1>2 DEF ImportDB
<1>4. Carries(g, d, m)
  BY <1>1, <1>3, SameStore DEF Carries
<1> QED BY <1>1, <1>4, CarriedSound

(* A file that is imported leaves a sound store: the records it goes on    *)
(* from were read, unless it is read anew.                                 *)
LEMMA ImportedSound ==
  ASSUME FilesSound, StoreSound(db), NEW p \in Paths, disk[p].state = "file",
         NEW b \in BOOLEAN, NEW m, m = [Logs!Imported(db, p) EXCEPT !.partial = b]
  PROVE  StoreSound(m)
<1>1. PICK g : Told(g, db.cutoff) /\ Sound(g, db)
  BY DEF StoreSound
<1> DEFINE f == disk[p]
           W == Logs!Whole(f)
           news == SubSeq(W, Logs!Begin(db, p) + 1, Len(W))
           e == Logs!Records(db, news, f.created)
           point == [offset |-> 2 * Len(W), size |-> Logs!Size(f), stamp |-> f.stamp]
           n == [e EXCEPT !.points[p] = point]
<1>2. Logs!Imported(db, p) = n
  BY DEF Logs!Imported, Logs!Created
<1>3. /\ db \in ImportDB /\ db.points[p].offset \in Nat /\ ReadTo(db, p) /\ Readable(p)
      /\ f \in LogFile /\ FileSound(p) /\ written \in Nat
  BY DEF StoreSound, ImportDB, Point, Readable, FilesSound, FileTypes
<1>4. /\ Logs!Begin(db, p) \in Nat
      /\ \A i \in Entries(p) : i <= Logs!Begin(db, p) => IsRead(db, LogOf(p)[i])
  <2> DEFINE o == db.points[p].offset
  <2>1. CASE Logs!Shrunk(db, p) \/ o > Logs!Size(f)
    <3>1. Logs!Begin(db, p) = 0
      BY <2>1 DEF Logs!Begin
    <3> QED BY <3>1 DEF Entries
  <2>2. CASE ~(Logs!Shrunk(db, p) \/ o > Logs!Size(f))
    <3>1. Logs!Begin(db, p) = o \div 2
      BY <2>2 DEF Logs!Begin
    <3>2. o \div 2 \in Nat /\ \A i \in Nat : i <= o \div 2 => 2 * i <= o
      BY <1>3
    <3> QED BY <1>3, <2>2, <3>1, <3>2 DEF ReadTo, Entries
  <2> QED BY <2>1, <2>2
<1>5. Carries(g, db, e) /\ \A i \in 1 .. Len(W) : IsRead(e, LogOf(p)[i])
  BY <1>1, <1>3, <1>4, ImportedCarries
<1>6. /\ Len(W) \in Nat /\ Len(W) <= Len(LogOf(p)) /\ Len(LogOf(p)) \in Nat
      /\ Logs!Size(f) = 2 * Len(LogOf(p)) - (IF f.torn THEN 1 ELSE 0)
      /\ Len(W) = IF f.torn THEN Len(LogOf(p)) - 1 ELSE Len(LogOf(p))
  BY WholeLog DEF Logs!Size, LogOf
<1> HIDE DEF W, e
<1>7. /\ point \in Point /\ point.offset <= point.size /\ point.stamp <= written
      /\ \E i \in Nat : point.offset = 2 * i
  <2>1. f.stamp \in Nat /\ f.stamp <= written /\ f.torn \in BOOLEAN
    BY <1>3 DEF LogFile, FileSound
  <2> HIDE DEF f
  <2>2. \E i \in Nat : point.offset = 2 * i
    <3>1. point.offset = 2 * Len(W)
      OBVIOUS
    <3> HIDE DEF point
    <3> QED BY <1>6, <3>1
  <2>3. point \in Point /\ point.offset <= point.size /\ point.stamp <= written
    BY <1>6, <2>1 DEF Point
  <2> QED BY <2>2, <2>3
<1>8. StoreSound(e)
  BY <1>1, <1>5, CarriedSound
<1>9. /\ n \in ImportDB /\ n.events = e.events /\ n.counters = e.counters
      /\ n.points = [e.points EXCEPT ![p] = point]
      /\ n.sessions = e.sessions /\ n.conflicts = e.conflicts /\ n.cutoff = e.cutoff
      /\ n.points[p] = point /\ \A q \in Paths \ {p} : n.points[q] = e.points[q]
  <2>1. e \in ImportDB
    BY <1>5 DEF Carries
  <2> HIDE DEF point
  <2> QED BY <1>7, <2>1 DEF ImportDB
<1> HIDE DEF n
<1>10. ~Logs!Shrunk(n, p)
  <2>1. Logs!Size(f) \in Int /\ ~(Logs!Size(f) < Logs!Size(f))
    BY <1>6
  <2> QED BY <1>9, <2>1 DEF Logs!Shrunk
<1>11. \A r : IsRead(e, r) => IsRead(n, r)
  BY <1>9, SameStore
<1>12. PointSound(n, p)
  BY <1>7, <1>9, <1>10 DEF PointSound
<1>13. ReadTo(n, p)
  <2>1. \A i \in Nat : 2 * i <= 2 * Len(W) => i <= Len(W)
    BY <1>6
  <2>2. n.points[p].offset = 2 * Len(W)
    BY <1>9
  <2> HIDE DEF point
  <2> QED BY <1>5, <1>11, <2>1, <2>2 DEF ReadTo, Entries
<1>14. ASSUME NEW q \in Paths, q # p PROVE PointSound(n, q) /\ ReadTo(n, q)
  <2>1. n.points[q] = e.points[q] /\ PointSound(e, q) /\ ReadTo(e, q)
    BY <1>8, <1>9, <1>14 DEF StoreSound
  <2> QED BY <1>11, <2>1 DEF PointSound, ReadTo, Logs!Shrunk
<1>15. StoreSound(n)
  <2>1. Told(g, n.cutoff) /\ Sound(g, n)
    BY <1>1, <1>5, <1>9, SameStore DEF Carries
  <2> QED BY <1>9, <1>12, <1>13, <1>14, <2>1 DEF StoreSound
<1> QED BY <1>2, <1>15, PartialSound

-----------------------------------------------------------------------------
(* Retention *)

(* What is too old, and what becomes of its session.                       *)
Beyond(d) == {x \in d.events : x.time <= horizon}
Keeps(d) == {row \in d.sessions : row.last > horizon}
Trimmed(d) == {row \in d.sessions : \E x \in Beyond(d) : x.id = row.id}
Trims(d, row) == IF row \in Trimmed(d) THEN [row EXCEPT !.partial = TRUE] ELSE row

(* What retention leaves of the store.                                     *)
LEMMA RetainedIs ==
  ASSUME NEW d \in ImportDB, NEW m, m = Logs!Retained(d)
  PROVE  /\ m \in ImportDB /\ m.points = d.points /\ m.cutoff = d.cutoff
         /\ m.conflicts = d.conflicts
         /\ m.events = {x \in d.events \ Beyond(d) : \E row \in Keeps(d) : row.id = x.id}
         /\ m.sessions = {Trims(d, row) : row \in Keeps(d)}
         /\ \A s \in Paths :
              m.counters[s] = IF \E row \in Keeps(d) : row.id = s THEN d.counters[s]
                              ELSE Logs!NoCounter
         /\ \A row \in d.sessions :
              LET k == Trims(d, row) IN
              /\ k \in Row /\ k.id = row.id /\ k.last = row.last /\ (row.partial => k.partial)
              /\ ~k.partial => row \notin Trimmed(d)
<1> DEFINE X == {x \in d.events \ Beyond(d) : \E row \in Keeps(d) : row.id = x.id}
           S == {Trims(d, row) : row \in Keeps(d)}
           C == [s \in Paths |-> IF \E row \in Keeps(d) : row.id = s THEN d.counters[s]
                                 ELSE Logs!NoCounter]
           n == [d EXCEPT !.events = X, !.sessions = S, !.counters = C]
<1>1. \A row \in Row :
        LET k == Trims(d, row) IN
        /\ k \in Row /\ k.id = row.id /\ k.last = row.last /\ (row.partial => k.partial)
        /\ ~k.partial => row \notin Trimmed(d)
  BY DEF Trims, Row
<1>2. X \in SUBSET Event /\ S \in SUBSET Row /\ C \in [Paths -> Mark]
  <2>1. d.events \in SUBSET Event /\ d.sessions \in SUBSET Row /\ d.counters \in [Paths -> Mark]
    BY DEF ImportDB
  <2>2. Logs!NoCounter \in Mark
    BY DEF Logs!NoCounter, Mark
  <2> QED BY <1>1, <2>1, <2>2 DEF Keeps
<1>3. m = n
  <2>1. m = [d EXCEPT
        !.events = {x \in @ \ Beyond(d) : \E row \in Keeps(d) : row.id = x.id},
        !.sessions = {IF row \in Trimmed(d) THEN [row EXCEPT !.partial = TRUE] ELSE row : row \in Keeps(d)},
        !.counters = [s \in Paths |-> IF \E row \in Keeps(d) : row.id = s THEN @[s] ELSE Logs!NoCounter]]
    BY DEF Logs!Retained, Beyond, Keeps, Trimmed
  <2> QED BY <2>1 DEF ImportDB, Trims
<1> HIDE DEF X, S, C
<1>4. /\ n \in ImportDB /\ n.points = d.points /\ n.cutoff = d.cutoff
      /\ n.conflicts = d.conflicts /\ n.events = X /\ n.sessions = S /\ n.counters = C
  BY <1>2 DEF ImportDB
<1>5. d.sessions \subseteq Row
  BY DEF ImportDB
<1>6. \A row \in d.sessions :
        LET k == Trims(d, row) IN
        /\ k \in Row /\ k.id = row.id /\ k.last = row.last /\ (row.partial => k.partial)
        /\ ~k.partial => row \notin Trimmed(d)
  BY <1>1, <1>5
<1>7. \A s \in Paths : C[s] = IF \E row \in Keeps(d) : row.id = s THEN d.counters[s]
                              ELSE Logs!NoCounter
  BY DEF C
<1> QED BY <1>3, <1>4, <1>6, <1>7 DEF X, S

(* A session that loses events is partial, and one that is gone is unread. *)
LEMMA RetainedStored ==
  ASSUME FileTypes, NEW g, Story(g), NEW d \in ImportDB, NEW s \in Paths, Stored(g, d, s)
  PROVE  Stored(g, Logs!Retained(d), s)
<1> DEFINE m == Logs!Retained(d)
<1>1. /\ m \in ImportDB /\ m.cutoff = d.cutoff
      /\ m.events = {x \in d.events \ Beyond(d) : \E row \in Keeps(d) : row.id = x.id}
      /\ m.sessions = {Trims(d, row) : row \in Keeps(d)}
      /\ m.counters[s] = IF \E row \in Keeps(d) : row.id = s THEN d.counters[s]
                         ELSE Logs!NoCounter
      /\ \A row \in d.sessions :
           LET k == Trims(d, row) IN
           /\ k \in Row /\ k.id = row.id /\ k.last = row.last /\ (row.partial => k.partial)
           /\ ~k.partial => row \notin Trimmed(d)
  BY RetainedIs
<1> HIDE DEF m
<1>2. CASE \A row \in Keeps(d) : row.id # s
  <2>1. m.counters[s] = Logs!NoCounter
    BY <1>1, <1>2
  <2>2. Events(m, s) = {}
    BY <1>1, <1>2 DEF Events
  <2>3. SessionRows(m, s) = {}
    BY <1>1, <1>2 DEF SessionRows, Keeps
  <2> QED BY <2>1, <2>2, <2>3 DEF Stored, Unread, m
<1>3. CASE \E row \in Keeps(d) : row.id = s
  <2>1. PICK row \in Keeps(d) : row.id = s
    BY <1>3
  <2>2. row \in SessionRows(d, s) /\ row \in d.sessions
    BY <2>1 DEF Keeps, SessionRows
  <2>3. Reads(g, d, s, row)
    <3>1. PICK o \in Row : Reads(g, d, s, o)
      BY <2>2 DEF Stored, Unread
    <3>2. row = o
      BY <2>2, <3>1 DEF Reads
    <3> QED BY <3>1, <3>2
  <2> DEFINE k == Trims(d, row)
             c == d.counters[s]
             E == Events(d, s)
             M == Events(m, s)
  <2>4. /\ k \in Row /\ k.id = s /\ k.last = row.last /\ (row.partial => k.partial)
        /\ ~k.partial => row \notin Trimmed(d)
    BY <1>1, <2>1, <2>2
  <2>5. m.counters[s] = c
    BY <1>1, <1>3
  <2>6. SessionRows(m, s) = {k}
    <3>1. \A o \in Keeps(d) : o.id = s => o = row
      BY <2>3 DEF Reads, SessionRows, Keeps
    <3> HIDE DEF k
    <3>2. \A o \in SessionRows(m, s) : o = k
      BY <1>1, <3>1 DEF SessionRows, Keeps, k
    <3>3. k \in SessionRows(m, s)
      BY <1>1, <2>1, <2>4 DEF SessionRows, k
    <3> QED BY <3>2, <3>3
  <2>7. /\ M \in SUBSET E
        /\ row \notin Trimmed(d) => M = E
    <3>1. M \in SUBSET E
      BY <1>1 DEF Events
    <3>2. ASSUME row \notin Trimmed(d), NEW x \in E PROVE x \in M
      <4>1. x \in d.events /\ x.id = s /\ x \notin Beyond(d)
        BY <2>1, <2>2, <3>2 DEF Events, Trimmed
      <4> QED BY <1>1, <2>1, <4>1 DEF Events
    <3> QED BY <3>1, <3>2
  <2>8. /\ d.cutoff < c.at /\ c.at <= written
        /\ total[s] - c.value <= spent[s] - g[s][c.at]
        /\ WholeNumbers(E) /\ \A x \in E : x.time <= c.at
        /\ SumOf(E) <= g[s][c.at] /\ c.at <= row.last
        /\ ~row.partial => SumOf(E) = c.value
    BY <2>3 DEF Reads
  <2>9. WholeNumbers(M) /\ SumOf(M) <= g[s][c.at]
    <3> DEFINE w == SumOf(M)
               e == SumOf(E)
               r == SumOf(E \ M)
    <3>1. WholeNumbers(M) /\ w \in Nat /\ e \in Nat /\ e = w + r /\ r \in Nat
      BY <2>7, <2>8, SumOfFewer
    <3>2. e <= g[s][c.at]
      BY <2>8
    <3>3. w <= e
      <4> HIDE DEF w, e, r
      <4> QED BY <3>1
    <3>4. w <= g[s][c.at]
      <4>1. c.at \in Nat
        BY DEF ImportDB, Mark
      <4>2. g[s][c.at] \in Nat
        BY <4>1 DEF Story
      <4> HIDE DEF w, e, r
      <4> QED BY <3>1, <3>2, <3>3, <4>2
    <3> QED BY <3>1, <3>4
  <2>10. Within(g, m, s, k)
    BY <1>1, <2>3, <2>4, <2>5 DEF Reads, Within
  <2>11. ~k.partial => SumOf(M) = c.value
    BY <2>4, <2>7, <2>8
  <2> HIDE DEF k, c, E
  <2>12. \A x \in M : x.time <= c.at
    BY <2>7, <2>8
  <2>13. c.at <= k.last
    BY <2>4, <2>8
  <2> HIDE DEF M
  <2>14. Reads(g, m, s, k)
    BY <1>1, <2>5, <2>6, <2>8, <2>9, <2>10, <2>11, <2>12, <2>13 DEF Reads, M, c
  <2> QED BY <2>4, <2>14 DEF Stored, m
<1> QED BY <1>2, <1>3

(* Retention undoes nothing that is not older than its horizon.            *)
LEMMA RetainedCarries ==
  ASSUME FileTypes, NEW g, NEW d \in ImportDB, Told(g, d.cutoff), Sound(g, d)
  PROVE  Carries(g, d, Logs!Retained(d))
<1> DEFINE m == Logs!Retained(d)
<1>1. /\ m \in ImportDB /\ m.cutoff = d.cutoff /\ m.points = d.points /\ m.conflicts = d.conflicts
      /\ m.events = {x \in d.events \ Beyond(d) : \E row \in Keeps(d) : row.id = x.id}
      /\ m.sessions = {Trims(d, row) : row \in Keeps(d)}
      /\ \A s \in Paths :
              m.counters[s] = IF \E row \in Keeps(d) : row.id = s THEN d.counters[s]
                              ELSE Logs!NoCounter
      /\ \A row \in d.sessions :
           LET k == Trims(d, row) IN
           /\ k \in Row /\ k.id = row.id /\ k.last = row.last /\ (row.partial => k.partial)
           /\ ~k.partial => row \notin Trimmed(d)
  BY RetainedIs
<1>2. Logs!Codex => \A s \in Paths : Stored(g, m, s)
  BY RetainedStored DEF Told, Sound
<1> HIDE DEF m
<1>3. horizon \in Nat
  BY DEF FileTypes
<1>4. ASSUME NEW z \in LogRecord, TotalRead(d, z) PROVE TotalRead(m, z)
  <2>1. z.id \in Paths /\ z.time \in Nat
    BY DEF LogRecord
  <2>2. CASE z.value = Logs!Junk \/ z.time <= d.cutoff \/ z.time <= horizon
    BY <1>1, <2>2 DEF TotalRead
  <2>3. CASE /\ ~(z.time <= horizon)
             /\ \E row \in SessionRows(d, z.id) :
                  z.time <= row.last /\ (row.partial \/ z.value <= d.counters[z.id].value)
    <3>1. PICK row \in SessionRows(d, z.id) :
            z.time <= row.last /\ (row.partial \/ z.value <= d.counters[z.id].value)
      BY <2>3
    <3>2. row \in d.sessions /\ row.id = z.id /\ row.last \in Nat
      BY DEF SessionRows, ImportDB, Row
    <3>3. row \in Keeps(d)
      BY <1>3, <2>1, <2>3, <3>1, <3>2 DEF Keeps
    <3> DEFINE k == Trims(d, row)
    <3>4. k \in m.sessions /\ k.id = z.id /\ k.last = row.last /\ (row.partial => k.partial)
      BY <1>1, <3>2, <3>3
    <3>5. m.counters[z.id] = d.counters[z.id]
      BY <1>1, <2>1, <3>2, <3>3
    <3> HIDE DEF k
    <3>6. k \in SessionRows(m, z.id)
      BY <3>4 DEF SessionRows
    <3> QED BY <3>1, <3>4, <3>5, <3>6 DEF TotalRead
  <2> QED BY <1>4, <2>2, <2>3 DEF TotalRead
<1>5. ASSUME ~Logs!Codex, horizon = 0
      PROVE  /\ \A s \in Paths : MessageStored(m, s)
             /\ \A s \in Paths : Events(m, s) = Events(d, s)
  <2>1. Beyond(d) = {} /\ Trimmed(d) = {}
    BY <1>5 DEF Beyond, Trimmed, ImportDB, Event
  <2>2. \A s \in Paths : MessageStored(d, s)
    BY <1>5 DEF Sound
  <2>3. \A row \in d.sessions : 0 < row.last => row \in Keeps(d)
    BY <1>5 DEF Keeps, ImportDB, Row
  <2>4. m.sessions = Keeps(d)
    BY <1>1, <2>1 DEF Trims
  <2>5. \A x \in d.events : x.id \in Paths /\ \E row \in Keeps(d) : row.id = x.id
    <3> SUFFICES ASSUME NEW x \in d.events
                 PROVE  x.id \in Paths /\ \E row \in Keeps(d) : row.id = x.id
      OBVIOUS
    <3>1. x.id \in Paths /\ x \in Events(d, x.id)
      BY DEF ImportDB, Event, Events
    <3>2. PICK row \in SessionRows(d, x.id) : 0 < row.last
      BY <2>2, <3>1 DEF MessageStored
    <3> QED BY <2>3, <3>1, <3>2 DEF SessionRows
  <2>6. m.events = d.events
    BY <1>1, <2>1, <2>5
  <2>7. \A s \in Paths : Events(m, s) = Events(d, s)
    BY <2>6 DEF Events
  <2>8. \A s \in Paths : (\E row \in SessionRows(d, s) : 0 < row.last) => \E row \in SessionRows(m, s) : 0 < row.last
    BY <2>3, <2>4 DEF SessionRows
  <2> QED BY <1>1, <2>2, <2>7, <2>8 DEF MessageStored
<1>6. ASSUME ~Logs!Codex, NEW z \in LogRecord, MessageRead(d, z) PROVE MessageRead(m, z)
  <2>1. z.id \in Paths
    BY DEF LogRecord
  <2> QED BY <1>1, <1>5, <1>6, <2>1 DEF MessageRead
<1>7. Sound(g, m)
  BY <1>2, <1>5 DEF Sound, m
<1> QED BY <1>1, <1>4, <1>6, <1>7 DEF Carries, IsRead, m

(* A scan begins with retention,                                           *)
LEMMA BeginScanSound ==
  ASSUME ImportInv, Logs!BeginScan
  PROVE  ImportInv'
<1>1. UNCHANGED ofFiles /\ (db' = db \/ db' = Logs!Retained(db))
  BY DEF Logs!BeginScan, Logs!files, ofFiles
<1>2. StoreSound(db) /\ FilesSound /\ FileTypes /\ NothingUsed
  BY DEF ImportInv, FilesSound
<1>3. PICK g : Told(g, db.cutoff) /\ Sound(g, db)
  BY <1>2 DEF StoreSound
<1>4. db \in ImportDB
  BY <1>2 DEF StoreSound
<1>5. StoreSound(Logs!Retained(db))
  BY <1>2, <1>3, <1>4, RetainedCarries, CarriedSound
<1>6. StoreSound(db')
  BY <1>1, <1>2, <1>5
<1> QED BY <1>1, <1>2, <1>6, SameFiles DEF ImportInv

(* imports a file at a time,                                               *)
LEMMA ImportFileSound ==
  ASSUME ImportInv, NEW p \in Paths, Logs!ImportFile(p)
  PROVE  ImportInv'
<1>1. UNCHANGED ofFiles
  BY DEF Logs!ImportFile, Logs!files, ofFiles
<1>2. StoreSound(db) /\ FilesSound /\ NothingUsed
  BY DEF ImportInv
<1>3. CASE db' = db
  BY <1>1, <1>2, <1>3, SameFiles DEF ImportInv
<1>4. CASE /\ disk[p].state = "file"
           /\ db' = [Logs!Imported(db, p) EXCEPT
                       !.partial = @ \/ job.partial \/ Logs!Incomplete(db, p)]
  <2> DEFINE e == Logs!Imported(db, p)
             b == e.partial \/ job.partial \/ Logs!Incomplete(db, p)
  <2>1. db' = [e EXCEPT !.partial = b]
    <3>1. e = [Logs!Records(db, SubSeq(Logs!Whole(disk[p]), Logs!Begin(db, p) + 1,
                                       Len(Logs!Whole(disk[p]))), Logs!Created(disk[p]))
                 EXCEPT !.points[p] = [offset |-> 2 * Len(Logs!Whole(disk[p])),
                                       size |-> Logs!Size(disk[p]), stamp |-> disk[p].stamp]]
      BY DEF Logs!Imported
    <3> HIDE DEF e
    <3> QED BY <1>4 DEF e
  <2>2. b \in BOOLEAN
    OBVIOUS
  <2> HIDE DEF b
  <2>3. StoreSound(db')
    BY <1>2, <1>4, <2>1, <2>2, ImportedSound
  <2> QED BY <1>1, <1>2, <2>3, SameFiles DEF ImportInv
<1> QED BY <1>3, <1>4 DEF Logs!ImportFile

(* and notes at its end what it has left.                                  *)
LEMMA EndScanSound ==
  ASSUME ImportInv, Logs!EndScan
  PROVE  ImportInv'
<1>1. UNCHANGED ofFiles
  BY DEF Logs!EndScan, Logs!files, ofFiles
<1>2. StoreSound(db) /\ FilesSound /\ NothingUsed /\ db \in ImportDB
  BY DEF ImportInv, StoreSound
<1> DEFINE b == db.partial \/ job.partial \/ job.queue # <<>>
<1>3. db' = [db EXCEPT !.partial = b] /\ b \in BOOLEAN
  BY <1>2 DEF Logs!EndScan, ImportDB
<1> HIDE DEF b
<1>4. StoreSound(db')
  BY <1>2, <1>3, PartialSound
<1> QED BY <1>1, <1>2, <1>4, SameFiles DEF ImportInv

-----------------------------------------------------------------------------
(* Deletion *)

Empty(d, k) ==
  /\ d \in ImportDB /\ d.events = {} /\ d.sessions = {} /\ d.cutoff = k
  /\ \A p \in Paths : d.counters[p] = Logs!NoCounter /\ d.points[p] = Logs!NoPoint

(* A store that is deleted remembers when,                                 *)
LEMMA EmptyIs ==
  ASSUME NEW k \in Nat, NEW d, d = [Logs!EmptyDB EXCEPT !.cutoff = k]
  PROVE  Empty(d, k)
<1> DEFINE C == [p \in Paths |-> Logs!NoCounter]
           P == [p \in Paths |-> Logs!NoPoint]
           z == {}
           q == FALSE
           n == [events |-> z, counters |-> C, sessions |-> z, conflicts |-> z,
                 points |-> P, cutoff |-> k, partial |-> q]
<1>1. C \in [Paths -> Mark] /\ P \in [Paths -> Point]
  <2>1. Logs!NoCounter \in Mark /\ Logs!NoPoint \in Point
    BY DEF Logs!NoCounter, Logs!NoPoint, Mark, Point
  <2> QED BY <2>1
<1>2. d = n
  BY DEF Logs!EmptyDB
<1>3. \A p \in Paths : C[p] = Logs!NoCounter /\ P[p] = Logs!NoPoint
  OBVIOUS
<1>4. z \in SUBSET Event /\ z \in SUBSET Row /\ z \in SUBSET Paths /\ q \in BOOLEAN
  OBVIOUS
<1>5. z = {}
  OBVIOUS
<1> HIDE DEF C, P, z, q
<1>6. n \in ImportDB /\ n.events = z /\ n.sessions = z /\ n.cutoff = k
      /\ n.counters = C /\ n.points = P
  BY <1>1, <1>4 DEF ImportDB
<1> HIDE DEF n
<1> QED BY <1>2, <1>3, <1>5, <1>6 DEF Empty

(* and the first one was not deleted yet.                                  *)
LEMMA EmptyFirst == Empty(Logs!EmptyDB, 0)
<1>1. [Logs!EmptyDB EXCEPT !.cutoff = 0] = Logs!EmptyDB
  <2> DEFINE C == [p \in Paths |-> Logs!NoCounter]
             P == [p \in Paths |-> Logs!NoPoint]
             q == FALSE
             n == [events |-> {}, counters |-> C, sessions |-> {}, conflicts |-> {},
                   points |-> P, cutoff |-> 0, partial |-> q]
  <2>1. Logs!EmptyDB = n
    BY DEF Logs!EmptyDB
  <2> HIDE DEF C, P, q
  <2>2. [n EXCEPT !.cutoff = 0] = n
    OBVIOUS
  <2> QED BY <2>1, <2>2
<1> QED BY <1>1, EmptyIs

(* Nothing is stored, whatever was used until now.                         *)
Cleared ==
  /\ FilesSound /\ NothingUsed /\ Empty(db, written)
  /\ \A s \in Paths : spent[s] = 0
StoreIsSound == StoreSound(db)

(* An empty store is sound, whatever the files hold: no record in them is  *)
(* later than the deletion.                                                *)
LEMMA ClearedSound == Cleared => StoreIsSound
<1> SUFFICES ASSUME Cleared PROVE StoreSound(db)
  BY DEF StoreIsSound
<1> DEFINE g == [s \in Paths |-> [t \in Nat |-> 0]]
           k == written
<1>1. /\ FilesSound /\ NothingUsed /\ Empty(db, k) /\ written \in Nat
      /\ \A s \in Paths : spent[s] = 0
      /\ \A p \in Paths : FileSound(p) /\ disk[p] \in LogFile
  BY DEF Cleared, FilesSound, FileTypes
<1>2. \A p \in Paths : Logs!Size(disk[p]) \in Nat
  BY <1>1 DEF Logs!Size, LogFile, FileSound
<1>3. ASSUME NEW p \in Paths PROVE PointSound(db, p) /\ ReadTo(db, p)
  <2>1. db.points[p] = Logs!NoPoint
    BY <1>1 DEF Empty
  <2>2. ~Logs!Shrunk(db, p)
    BY <1>2, <2>1 DEF Logs!Shrunk, Logs!NoPoint
  <2>3. \A i \in Entries(p) : ~(2 * i <= 0)
    BY DEF Entries
  <2> QED BY <1>1, <2>1, <2>2, <2>3 DEF PointSound, ReadTo, Logs!NoPoint
<1>4. Story(g)
  BY <1>1 DEF Story
<1>5. ASSUME NEW p \in Paths PROVE Spends(g, k, p)
  <2>1. disk[p].created \in Nat /\ disk[p].created <= written /\ disk[p].session \in Paths
    BY <1>1 DEF LogFile, FileSound
  <2>2. Young(k, p) => total[disk[p].session] <= spent[disk[p].session]
    BY <1>1, <2>1 DEF Young, NothingUsed
  <2>3. \A i \in Entries(p) : ~Usable(k, LogOf(p)[i])
    <3> SUFFICES ASSUME NEW i \in Entries(p) PROVE ~(k < LogOf(p)[i].time)
      BY DEF Usable
    <3>1. LogOf(p)[i].time \in Nat /\ LogOf(p)[i].time <= written
      BY <1>1, EntryTyped DEF FileSound, LogRecord
    <3> QED BY <1>1, <3>1
  <2> QED BY <2>2, <2>3 DEF Spends
<1>6. \A s : Events(db, s) = {} /\ SessionRows(db, s) = {}
  BY <1>1 DEF Empty, Events, SessionRows
<1>7. Sound(g, db)
  BY <1>1, <1>6 DEF Sound, Stored, Unread, MessageStored, Empty
<1>8. Told(g, db.cutoff)
  <2> HIDE DEF g
  <2> QED BY <1>1, <1>4, <1>5 DEF Told, Empty
<1> QED BY <1>1, <1>3, <1>7, <1>8 DEF StoreSound, Empty

LEMMA ClearedSoundNext == Cleared' => StoreIsSound'
BY ClearedSound, PTL

(* Sessions are deleted.                                                   *)
LEMMA ClearSessionsSound ==
  ASSUME ImportInv, Logs!ClearSessions
  PROVE  ImportInv'
<1>1. /\ db' = [Logs!EmptyDB EXCEPT !.cutoff = written]
      /\ spent' = [s \in Paths |-> 0]
      /\ UNCHANGED <<logTool, disk, total, written, horizon>>
  BY DEF Logs!ClearSessions
<1>2. FilesSound /\ NothingUsed /\ written \in Nat
  BY DEF ImportInv, FilesSound, FileTypes
<1>3. FilesSound'
  BY <1>1, <1>2 DEF FilesSound, FileTypes, FileSound, OneFile, Readable, Entries, LogOf, Logs!Codex
<1>4. NothingUsed'
  BY <1>1, <1>2 DEF NothingUsed
<1>5. Empty(db', written)
  BY <1>1, <1>2, EmptyIs
<1>6. Cleared'
  BY <1>1, <1>3, <1>4, <1>5 DEF Cleared, Empty
<1> QED BY <1>3, <1>4, <1>6, ClearedSoundNext DEF ImportInv, StoreIsSound

(* At first no file has a record.                                          *)
LEMMA ImportStarts == Logs!Init => ImportInv
<1> SUFFICES ASSUME Logs!Init PROVE ImportInv
  OBVIOUS
<1>1. /\ disk = [p \in Paths |-> [state |-> "never", session |-> p, created |-> 0,
                                  log |-> <<>>, torn |-> FALSE, stamp |-> 0]]
      /\ total = [s \in Paths |-> 0] /\ spent = [s \in Paths |-> 0]
      /\ written = 0 /\ horizon = 0 /\ db = Logs!EmptyDB
  BY DEF Logs!Init
<1>2. FileTypes
  <2>1. <<>> \in Seq(LogRecord)
    OBVIOUS
  <2> QED BY <1>1, <2>1 DEF FileTypes, LogFile
<1>3. \A p \in Paths : FileSound(p)
  BY <1>1 DEF FileSound, Entries, LogOf
<1>4. OneFile
  BY <1>1 DEF OneFile
<1>5. FilesSound /\ NothingUsed
  BY <1>1, <1>2, <1>3, <1>4 DEF FilesSound, NothingUsed
<1>6. Empty(db, written)
  BY <1>1, EmptyFirst
<1>7. Cleared
  BY <1>1, <1>5, <1>6 DEF Cleared
<1> QED BY <1>5, <1>7, ClearedSound DEF ImportInv, StoreIsSound

-----------------------------------------------------------------------------
(* What is written to the files *)

(* The files that can be read hold no more than before, and retention has  *)
(* not gone back.                                                          *)
Narrows ==
  /\ UNCHANGED <<logTool, db, total, spent>>
  /\ written <= written' /\ horizon <= horizon'
  /\ \A p \in Paths : Readable(p)' => \E q \in Paths :
       /\ Readable(q) /\ disk'[p].session = disk[q].session /\ disk'[p].created = disk[q].created
       /\ \A i \in Entries(p)' : i \in Entries(q) /\ LogOf(p)'[i] = LogOf(q)[i]

(* Files that hold less bound what was used no tighter.                    *)
LEMMA NarrowsKeeps ==
  ASSUME Narrows, FilesSound, FilesSound'
  PROVE  /\ \A g, k : Told(g, k) => Told(g, k)'
         /\ \A g : \A d \in ImportDB : Sound(g, d) => Sound(g, d)'
         /\ \A d : \A r \in LogRecord : IsRead(d, r) => IsRead(d, r)'
<1>1. /\ written \in Nat /\ written' \in Nat /\ horizon \in Nat /\ horizon' \in Nat
      /\ logTool' = logTool /\ db' = db /\ total' = total /\ spent' = spent
      /\ written <= written' /\ horizon <= horizon'
  BY DEF FilesSound, FileTypes, Narrows
<1>2. ASSUME NEW g, NEW k, Told(g, k) PROVE Told(g, k)'
  <2> SUFFICES ASSUME Logs!Codex'
               PROVE  Story(g)' /\ \A p \in Paths : Readable(p)' => Spends(g, k, p)'
    BY DEF Told
  <2>1. Logs!Codex
    BY <1>1 DEF Logs!Codex
  <2>2. Story(g)'
    BY <1>1, <1>2, <2>1 DEF Told, Story
  <2>3. ASSUME NEW p \in Paths, Readable(p)' PROVE Spends(g, k, p)'
    <3>1. PICK q \in Paths :
            /\ Readable(q) /\ disk'[p].session = disk[q].session /\ disk'[p].created = disk[q].created
            /\ \A i \in Entries(p)' : i \in Entries(q) /\ LogOf(p)'[i] = LogOf(q)[i]
      BY <2>3 DEF Narrows
    <3>2. Spends(g, k, q)
      BY <1>2, <2>1, <3>1 DEF Told
    <3>3. Young(k, p)' <=> Young(k, q)
      BY <3>1 DEF Young
    <3> QED BY <1>1, <3>1, <3>2, <3>3 DEF Spends, Usable
  <2> QED BY <2>2, <2>3
<1>3. ASSUME NEW g, NEW d \in ImportDB, NEW s, NEW row, Within(g, d, s, row)
      PROVE  Within(g, d, s, row)'
  <2> SUFFICES ASSUME NEW p \in Paths, Readable(p)', disk'[p].session = s, NEW i \in Entries(p)',
                      Usable(d.cutoff, LogOf(p)'[i])
      PROVE  LET c == d.counters[s] r == LogOf(p)'[i] IN
      /\ c.at <= r.time => r.value - c.value <= g[s][r.time] - g[s][c.at]
      /\ r.time <= c.at /\ horizon' < r.time => row.partial \/ r.value <= c.value
    BY DEF Within, Usable
  <2>1. PICK q \in Paths :
            /\ Readable(q) /\ disk[q].session = s
            /\ i \in Entries(q) /\ LogOf(p)'[i] = LogOf(q)[i]
    BY DEF Narrows
  <2>2. LogOf(q)[i].time \in Nat
    BY <2>1, EntryTyped DEF LogRecord
  <2>3. horizon' < LogOf(q)[i].time => horizon < LogOf(q)[i].time
    BY <1>1, <2>2
  <2> QED BY <1>3, <2>1, <2>3 DEF Within
<1>4. ASSUME NEW g, NEW d \in ImportDB, NEW s \in Paths, Stored(g, d, s) PROVE Stored(g, d, s)'
  <2>1. CASE Unread(d, s)
    BY <2>1 DEF Stored, Unread, SessionRows, Events
  <2>2. CASE \E row \in Row : Reads(g, d, s, row)
    <3>1. PICK row \in Row : Reads(g, d, s, row)
      BY <2>2
    <3>2. Within(g, d, s, row)'
      BY <1>3, <3>1 DEF Reads
    <3>3. d.counters[s].at \in Nat
      BY DEF ImportDB, Mark
    <3>4. d.counters[s].at <= written => d.counters[s].at <= written'
      BY <1>1, <3>3
    <3>5. Reads(g, d, s, row)'
      BY <1>1, <3>1, <3>2, <3>4 DEF Reads, Events, SessionRows, WholeNumbers, SumOf
    <3> QED BY <3>5 DEF Stored
  <2> QED BY <1>4, <2>1, <2>2 DEF Stored
<1>5. ASSUME NEW g, NEW d \in ImportDB, Sound(g, d) PROVE Sound(g, d)'
  <2>1. Logs!Codex' <=> Logs!Codex
    BY <1>1 DEF Logs!Codex
  <2>2. CASE Logs!Codex
    BY <1>4, <1>5, <2>1, <2>2 DEF Sound
  <2>3. CASE ~Logs!Codex
    <3>1. horizon' = 0 => horizon = 0
      BY <1>1
    <3> QED BY <1>5, <2>1, <2>3, <3>1 DEF Sound, MessageStored, Events, SessionRows
  <2> QED BY <2>2, <2>3
<1>6. ASSUME NEW d, NEW r \in LogRecord, IsRead(d, r) PROVE IsRead(d, r)'
  <2>1. r.time \in Nat
    BY DEF LogRecord
  <2>2. r.time <= horizon => r.time <= horizon'
    BY <1>1, <2>1
  <2>3. horizon # 0 => horizon' # 0
    BY <1>1
  <2> QED BY <1>1, <1>6, <2>2, <2>3 DEF IsRead, TotalRead, MessageRead, SessionRows, Events, Logs!Codex
<1> QED BY <1>2, <1>5, <1>6

(* So a store that was sound is, where its points are.                     *)
LEMMA NarrowsSound ==
  ASSUME ImportInv, Narrows, FilesSound',
         NEW P, P = {p \in Paths : PointSound(db, p)' /\ ReadTo(db, p)'}, P = Paths
  PROVE  StoreSound(db)'
<1>1. StoreSound(db) /\ FilesSound /\ db' = db
  BY DEF ImportInv, Narrows
<1>2. PICK g : Told(g, db.cutoff) /\ Sound(g, db)
  BY <1>1 DEF StoreSound
<1>3. db \in ImportDB
  BY <1>1 DEF StoreSound
<1>4. Told(g, db.cutoff)' /\ Sound(g, db)'
  BY <1>1, <1>2, <1>3, NarrowsKeeps
<1> QED BY <1>1, <1>3, <1>4 DEF StoreSound

(* A file is closed, cut or refused.                                       *)
Rewritten(p, f) ==
  /\ disk' = [disk EXCEPT ![p] = f] /\ written' = written + 1
  /\ UNCHANGED <<logTool, total, horizon, spent, db>>
  /\ f \in LogFile /\ f.session = disk[p].session /\ f.created = disk[p].created
  /\ f.stamp = written + 1
  /\ Len(f.log) <= Len(LogOf(p)) /\ \A i \in 1 .. Len(f.log) : f.log[i] = LogOf(p)[i]
  /\ f.torn => f.log # <<>>
  /\ \/ f.state = "refused"
     \/ /\ f.state = "file" /\ disk[p].state = "file" /\ ~f.torn
        /\ db.points[p].size < Logs!Size(f) => ~Logs!Shrunk(db, p)

(* Such a file leaves the store sound: a point beyond its end is noticed   *)
(* by its size.                                                            *)
LEMMA RewrittenSound ==
  ASSUME ImportInv, NEW p \in Paths, NEW f, Rewritten(p, f)
  PROVE  ImportInv'
<1>1. /\ FilesSound /\ FileTypes /\ OneFile /\ NothingUsed /\ StoreSound(db)
      /\ \A q \in Paths : FileSound(q)
  BY DEF ImportInv, FilesSound
<1>2. /\ disk' = [disk EXCEPT ![p] = f] /\ written' = written + 1
      /\ logTool' = logTool /\ total' = total /\ horizon' = horizon /\ spent' = spent /\ db' = db
      /\ f \in LogFile /\ f.session = disk[p].session /\ f.created = disk[p].created
      /\ f.stamp = written + 1
      /\ Len(f.log) <= Len(LogOf(p)) /\ \A i \in 1 .. Len(f.log) : f.log[i] = LogOf(p)[i]
      /\ f.torn => f.log # <<>>
      /\ f.state # "never"
      /\ f.state = "refused" \/ (f.state = "file" /\ disk[p].state = "file")
  BY DEF Rewritten
<1>3. written \in Nat /\ disk \in [Paths -> LogFile] /\ disk' \in [Paths -> LogFile]
      /\ disk'[p] = f /\ \A q \in Paths \ {p} : disk'[q] = disk[q]
  BY <1>1, <1>2 DEF FileTypes
<1>4. FileTypes'
  BY <1>1, <1>2, <1>3 DEF FileTypes
<1>5. Entries(p)' = 1 .. Len(f.log) /\ LogOf(p)' = f.log
      /\ \A i \in 1 .. Len(f.log) : i \in Entries(p) /\ f.log[i] = LogOf(p)[i]
  <2>1. Len(f.log) \in Nat /\ Len(LogOf(p)) \in Nat
    BY <1>2, <1>3 DEF LogFile, LogOf
  <2> QED BY <1>2, <1>3, <2>1 DEF Entries, LogOf
<1>6. \A q \in Paths \ {p} : Entries(q)' = Entries(q) /\ LogOf(q)' = LogOf(q)
                             /\ (Readable(q)' <=> Readable(q))
  BY <1>3 DEF Entries, LogOf, Readable
<1>7. Readable(p)' => Readable(p)
  BY <1>2, <1>3 DEF Readable
<1>8. \A q \in Paths : FileSound(q)'
  <2>1. ASSUME NEW q \in Paths, q # p PROVE FileSound(q)'
    <3>1. disk[q].created \in Nat /\ disk[q].stamp \in Nat
          /\ \A i \in Entries(q) : LogOf(q)[i].time \in Nat
      BY <1>1, <1>3, EntryTyped DEF LogFile, LogRecord
    <3>2. \A x \in Nat : x <= written => x <= written'
      BY <1>2, <1>3
    <3> QED BY <1>1, <1>2, <1>3, <1>6, <2>1, <3>1, <3>2 DEF FileSound, Logs!Codex
  <2>2. FileSound(p)'
    <3>1. disk[p].created \in Nat /\ \A i \in Entries(p) : LogOf(p)[i].time \in Nat
      BY <1>1, <1>3, EntryTyped DEF LogFile, LogRecord
    <3>2. \A x \in Nat : x <= written => x <= written'
      BY <1>2, <1>3
    <3>3. written + 1 <= written'
      BY <1>2, <1>3
    <3> QED BY SMTT(40), <1>1, <1>2, <1>3, <1>5, <3>1, <3>2, <3>3 DEF FileSound, Logs!Codex
  <2> QED BY <2>1, <2>2
<1>9. OneFile'
  BY <1>1, <1>2, <1>3, <1>6, <1>7 DEF OneFile
<1>10. FilesSound'
  BY <1>4, <1>8, <1>9 DEF FilesSound
<1>11. NothingUsed'
  BY <1>2, <1>3 DEF NothingUsed
<1>12. Narrows
  <2>1. written <= written' /\ horizon <= horizon'
    BY <1>1, <1>2, <1>3 DEF FileTypes
  <2>2. ASSUME NEW q \in Paths, Readable(q)'
        PROVE  /\ Readable(q) /\ disk'[q].session = disk[q].session
               /\ disk'[q].created = disk[q].created
               /\ \A i \in Entries(q)' : i \in Entries(q) /\ LogOf(q)'[i] = LogOf(q)[i]
    BY <1>2, <1>3, <1>5, <1>6, <1>7, <2>2
  <2> QED BY <1>2, <2>1, <2>2 DEF Narrows
<1>13. \A d : \A r \in LogRecord : IsRead(d, r) => IsRead(d, r)'
  BY <1>1, <1>10, <1>12, NarrowsKeeps
<1>14. db \in ImportDB /\ db.points[p] \in Point
  BY <1>1 DEF StoreSound, ImportDB
<1>15. ASSUME NEW q \in Paths \ {p} PROVE PointSound(db, q)' /\ ReadTo(db, q)'
  <2>1. PointSound(db, q) /\ ReadTo(db, q)
    BY <1>1 DEF StoreSound
  <2>2. db.points[q].stamp \in Nat
    BY <1>14 DEF ImportDB, Point
  <2>3. PointSound(db, q)'
    <3>1. db.points[q].stamp <= written => db.points[q].stamp <= written'
      BY <1>2, <1>3, <2>2
    <3> QED BY <1>2, <1>3, <2>1, <3>1 DEF PointSound, Logs!Shrunk
  <2>4. ReadTo(db, q)'
    <3>1. \A i \in Entries(q) : LogOf(q)[i] \in LogRecord
      BY <1>1, EntryTyped
    <3> QED BY <1>2, <1>3, <1>6, <1>13, <2>1, <3>1 DEF ReadTo, Logs!Shrunk
  <2> QED BY <2>3, <2>4
<1>16. PointSound(db, p)'
  <2>1. PointSound(db, p)
    BY <1>1 DEF StoreSound
  <2>2. db.points[p].stamp \in Nat
    BY <1>14 DEF Point
  <2>3. db.points[p].stamp <= written => db.points[p].stamp <= written'
    BY <1>2, <1>3, <2>2
  <2>4. ~(disk'[p].state = "file" /\ disk'[p].torn)
    BY <1>3 DEF Rewritten
  <2> QED BY <1>2, <1>3, <2>1, <2>3, <2>4 DEF PointSound
<1>17. ReadTo(db, p)'
  <2> SUFFICES ASSUME Readable(p)', ~Logs!Shrunk(db, p)', NEW i \in Entries(p)',
                      2 * i <= db.points[p].offset
               PROVE  IsRead(db, LogOf(p)[i])'
    BY <1>2 DEF ReadTo
  <2>1. PointSound(db, p) /\ ReadTo(db, p)
    BY <1>1 DEF StoreSound
  <2>2. /\ Logs!Size(f) \in Int /\ db.points[p].size \in Int /\ db.points[p].stamp \in Nat
    BY <1>2, <1>14 DEF Logs!Size, LogFile, Point
  <2>3. db.points[p].size < Logs!Size(f)
    <3>1. f.stamp # db.points[p].stamp
      BY <1>2, <1>3, <2>1, <2>2 DEF PointSound
    <3>2. ~(Logs!Size(f) < db.points[p].size \/ (Logs!Size(f) = db.points[p].size /\ f.stamp # db.points[p].stamp))
      BY <1>2, <1>3 DEF Logs!Shrunk
    <3> QED BY <2>2, <3>1, <3>2
  <2>4. ~Logs!Shrunk(db, p)
    BY <1>2, <1>3, <2>3 DEF Rewritten, Readable
  <2>5. IsRead(db, LogOf(p)[i]) /\ LogOf(p)[i] \in LogRecord
    BY <1>1, <1>5, <1>7, <2>1, <2>4, EntryTyped DEF ReadTo
  <2>6. LogOf(p)'[i] = LogOf(p)[i]
    BY <1>5
  <2> QED BY <1>2, <1>13, <2>5, <2>6
<1>18. StoreSound(db)'
  <2> DEFINE P == {q \in Paths : PointSound(db, q)' /\ ReadTo(db, q)'}
  <2>1. P = Paths
    BY <1>15, <1>16, <1>17
  <2> HIDE DEF P
  <2> QED BY <1>10, <1>12, <2>1, NarrowsSound DEF P
<1> QED BY <1>10, <1>11, <1>18 DEF ImportInv

(* A record is written to its end,                                         *)
LEMMA CompleteRecordSound ==
  ASSUME ImportInv, NEW p \in Paths, Logs!CompleteRecord(p)
  PROVE  ImportInv'
<1> DEFINE f == [disk[p] EXCEPT !.torn = FALSE, !.stamp = written + 1]
<1>1. /\ disk[p] \in LogFile /\ written \in Nat /\ FileSound(p) /\ PointSound(db, p)
      /\ db \in ImportDB
  BY DEF ImportInv, FilesSound, FileTypes, StoreSound
<1>2. /\ disk[p].state = "file" /\ disk[p].torn
      /\ disk' = [disk EXCEPT ![p] = f] /\ written' = written + 1
      /\ UNCHANGED <<logTool, total, horizon, spent, db>>
  BY <1>1 DEF Logs!CompleteRecord, Logs!Written, Logs!store, LogFile
<1>3. /\ f \in LogFile /\ f.session = disk[p].session /\ f.created = disk[p].created
      /\ f.stamp = written + 1 /\ f.log = LogOf(p) /\ ~f.torn /\ f.state = "file"
  <2> DEFINE torn == FALSE
             n == written + 1
  <2>1. torn \in BOOLEAN /\ n \in Nat /\ f = [disk[p] EXCEPT !.torn = torn, !.stamp = n]
    BY <1>1
  <2> HIDE DEF torn, n, f
  <2>2. /\ f \in LogFile /\ f.state = disk[p].state /\ f.session = disk[p].session
        /\ f.created = disk[p].created
        /\ f.log = disk[p].log /\ f.torn = torn /\ f.stamp = n
    BY <1>1, <2>1 DEF LogFile
  <2> QED BY <1>2, <2>2 DEF LogOf, torn, n
<1> HIDE DEF f
<1>4. db.points[p].size < Logs!Size(f) => ~Logs!Shrunk(db, p)
  <2>1. /\ Logs!Size(f) = Logs!Size(disk[p]) + 1 /\ Logs!Size(disk[p]) \in Int
        /\ db.points[p].size \in Int
    BY <1>1, <1>2, <1>3 DEF Logs!Size, LogFile, LogOf, ImportDB, Point
  <2>2. Logs!Shrunk(db, p) => Logs!Size(disk[p]) < db.points[p].size
    BY <1>1, <1>2 DEF PointSound
  <2> QED BY <2>1, <2>2
<1>5. Len(f.log) \in Nat
  BY <1>3 DEF LogFile
<1>6. Rewritten(p, f)
  BY <1>2, <1>3, <1>4, <1>5 DEF Rewritten
<1> QED BY <1>6, RewrittenSound

(* a file is cut,                                                          *)
LEMMA CutSound ==
  ASSUME ImportInv, NEW p \in Paths, Logs!Cut(p)
  PROVE  ImportInv'
<1> DEFINE log == LogOf(p)
           n == Len(log) - 1
           cut == SubSeq(log, 1, n)
           f == [disk[p] EXCEPT !.log = cut, !.stamp = written + 1]
<1>1. disk[p] \in LogFile /\ written \in Nat /\ db \in ImportDB /\ log \in Seq(LogRecord)
  BY DEF ImportInv, FilesSound, FileTypes, StoreSound, LogFile, LogOf
<1>2. /\ disk[p].state = "file" /\ ~disk[p].torn /\ log # <<>>
      /\ disk' = [disk EXCEPT ![p] = f] /\ written' = written + 1
      /\ UNCHANGED <<logTool, total, horizon, spent, db>>
  BY <1>1 DEF Logs!Cut, Logs!Written, Logs!store, Logs!Front, LogFile, LogOf
<1>3. disk[p].log = log
  BY DEF LogOf
<1> HIDE DEF log
<1>4. n \in Nat /\ Len(log) = n + 1
  BY <1>1, <1>2
<1>5. cut \in Seq(LogRecord) /\ Len(cut) = n /\ \A i \in 1 .. n : cut[i] = log[i]
  <2>1. \A i \in 1 .. n : log[i] \in LogRecord
    BY <1>1, <1>4
  <2> HIDE DEF n
  <2>2. cut = [i \in 1 .. n |-> log[i]]
    BY <1>1, <1>4, <2>1
  <2> QED BY <1>4, <2>1, <2>2
<1> HIDE DEF cut, n
<1>6. /\ f \in LogFile /\ f.session = disk[p].session /\ f.created = disk[p].created
      /\ f.stamp = written + 1 /\ f.log = cut /\ ~f.torn /\ f.state = "file"
  <2> DEFINE w == written + 1
  <2>1. w \in Nat /\ f = [disk[p] EXCEPT !.log = cut, !.stamp = w]
    BY <1>1
  <2> HIDE DEF w, f
  <2>2. /\ f \in LogFile /\ f.state = disk[p].state /\ f.session = disk[p].session
        /\ f.created = disk[p].created
        /\ f.log = cut /\ f.torn = disk[p].torn /\ f.stamp = w
    BY <1>1, <1>5, <2>1 DEF LogFile
  <2> QED BY <1>2, <2>2 DEF w
<1> HIDE DEF f
<1>7. db.points[p].size < Logs!Size(f) => ~Logs!Shrunk(db, p)
  <2>1. /\ Logs!Size(f) = 2 * n /\ Logs!Size(disk[p]) = 2 * n + 2
        /\ db.points[p].size \in Int
    <3>1. Len(f.log) = n /\ Len(disk[p].log) = n + 1
      BY <1>3, <1>4, <1>5, <1>6
    <3>2. db.points[p].size \in Int
      BY <1>1 DEF ImportDB, Point
    <3> QED BY <1>2, <1>4, <1>6, <3>1, <3>2 DEF Logs!Size
  <2> QED BY <1>4, <2>1 DEF Logs!Shrunk
<1>8. Rewritten(p, f)
  BY <1>2, <1>4, <1>5, <1>6, <1>7 DEF Rewritten, log
<1> QED BY <1>8, RewrittenSound

(* or is one that cannot be read any more,                                 *)
LEMMA BecomesRefusedSound ==
  ASSUME ImportInv, NEW p \in Paths, Logs!BecomesRefused(p)
  PROVE  ImportInv'
<1> DEFINE f == [disk[p] EXCEPT !.state = "refused", !.stamp = written + 1]
<1>1. disk[p] \in LogFile /\ written \in Nat /\ FileSound(p)
  BY DEF ImportInv, FilesSound, FileTypes
<1>2. /\ disk' = [disk EXCEPT ![p] = f] /\ written' = written + 1
      /\ UNCHANGED <<logTool, total, horizon, spent, db>>
  BY <1>1 DEF Logs!BecomesRefused, Logs!Written, Logs!store, LogFile
<1>3. /\ f \in LogFile /\ f.session = disk[p].session /\ f.created = disk[p].created
      /\ f.stamp = written + 1 /\ f.log = LogOf(p) /\ f.torn = disk[p].torn /\ f.state = "refused"
  <2> DEFINE s == "refused"
             n == written + 1
  <2>1. s \in {"never", "file", "refused", "gone"} /\ n \in Nat
        /\ f = [disk[p] EXCEPT !.state = s, !.stamp = n]
    BY <1>1
  <2> HIDE DEF s, n, f
  <2>2. /\ f \in LogFile /\ f.state = s /\ f.session = disk[p].session
        /\ f.created = disk[p].created
        /\ f.log = disk[p].log /\ f.torn = disk[p].torn /\ f.stamp = n
    BY <1>1, <2>1 DEF LogFile
  <2> QED BY <2>2 DEF LogOf, s, n
<1> HIDE DEF f
<1>4. Len(f.log) \in Nat
  BY <1>3 DEF LogFile
<1>5. f.torn => f.log # <<>>
  BY <1>1, <1>3 DEF FileSound, LogOf
<1>6. Rewritten(p, f)
  BY <1>2, <1>3, <1>4, <1>5 DEF Rewritten
<1> QED BY <1>6, RewrittenSound

(* time passes for the retention,                                          *)
LEMMA AgeSound ==
  ASSUME ImportInv, Logs!Age
  PROVE  ImportInv'
<1>1. /\ horizon < written /\ horizon' = written
      /\ UNCHANGED <<logTool, disk, total, spent, written, db>>
  BY DEF Logs!Age, Logs!store
<1>2. FilesSound /\ NothingUsed /\ StoreSound(db) /\ written \in Nat /\ horizon \in Nat
  BY DEF ImportInv, FilesSound, FileTypes
<1>3. FilesSound'
  BY SMTT(40), <1>1, <1>2 DEF FilesSound, FileTypes, FileSound, OneFile, Readable, Entries, LogOf, Logs!Codex
<1>4. NothingUsed'
  BY <1>1, <1>2 DEF NothingUsed
<1>5. Narrows
  BY <1>1, <1>2 DEF Narrows, Readable, Entries, LogOf
<1>6. \A d : \A r \in LogRecord : IsRead(d, r) => IsRead(d, r)'
  BY <1>2, <1>3, <1>5, NarrowsKeeps
<1>7. ASSUME NEW p \in Paths PROVE PointSound(db, p)' /\ ReadTo(db, p)'
  <2>1. PointSound(db, p) /\ ReadTo(db, p)
    BY <1>2 DEF StoreSound
  <2>2. PointSound(db, p)'
    BY <1>1, <2>1 DEF PointSound, Logs!Shrunk
  <2>3. \A i \in Entries(p) : LogOf(p)[i] \in LogRecord
    BY <1>2, EntryTyped
  <2>4. ReadTo(db, p)'
    BY <1>1, <1>6, <2>1, <2>3 DEF ReadTo, Logs!Shrunk, Readable, Entries, LogOf
  <2> QED BY <2>2, <2>4
<1>8. StoreSound(db)'
  <2> DEFINE P == {q \in Paths : PointSound(db, q)' /\ ReadTo(db, q)'}
  <2>1. P = Paths
    BY <1>7
  <2> HIDE DEF P
  <2> QED BY <1>3, <1>5, <2>1, NarrowsSound DEF P
<1> QED BY <1>3, <1>4, <1>8 DEF ImportInv

(* and a file moves to another path, where it is read anew.                *)
LEMMA MoveSound ==
  ASSUME ImportInv, NEW p \in Paths, NEW q \in Paths, Logs!Move(p, q)
  PROVE  ImportInv'
<1> DEFINE f == [disk[p] EXCEPT !.state = "gone"]
<1>1. /\ FilesSound /\ FileTypes /\ OneFile /\ NothingUsed /\ StoreSound(db)
      /\ \A x \in Paths : FileSound(x)
  BY DEF ImportInv, FilesSound
<1>2. /\ disk[p].state = "file" /\ disk[q].state = "never" /\ p # q
      /\ UNCHANGED <<logTool, total, spent, written, horizon, db>>
      /\ disk' = [disk EXCEPT ![q] = disk[p], ![p].state = "gone"]
  BY DEF Logs!Move, Logs!store
<1>3. /\ written \in Nat /\ disk \in [Paths -> LogFile] /\ disk' \in [Paths -> LogFile]
      /\ disk'[p] = f /\ disk'[q] = disk[p] /\ \A x \in Paths \ {p, q} : disk'[x] = disk[x]
  <2>1. disk \in [Paths -> LogFile] /\ written \in Nat
    BY <1>1 DEF FileTypes
  <2>2. f \in LogFile
    BY <2>1 DEF LogFile
  <2>3. disk' = [[disk EXCEPT ![q] = disk[p]] EXCEPT ![p] = f]
    <3>1. [disk EXCEPT ![q] = disk[p]][p] = disk[p]
      BY <1>2, <2>1
    <3> QED BY <1>2, <3>1
  <2> HIDE DEF f
  <2> QED BY <1>2, <2>1, <2>2, <2>3
<1>4. /\ f.state = "gone" /\ f.session = disk[p].session /\ f.log = disk[p].log
      /\ f.torn = disk[p].torn /\ f.stamp = disk[p].stamp /\ f.created = disk[p].created
  BY <1>3 DEF LogFile
<1> HIDE DEF f
<1>5. /\ ~Readable(p)' /\ Readable(q)' /\ Readable(p)
      /\ \A x \in Paths \ {p, q} : Readable(x)' <=> Readable(x)
  BY <1>2, <1>3, <1>4 DEF Readable
<1>6. /\ Entries(q)' = Entries(p) /\ LogOf(q)' = LogOf(p)
      /\ Entries(p)' = Entries(p) /\ LogOf(p)' = LogOf(p)
      /\ \A x \in Paths \ {p, q} : Entries(x)' = Entries(x) /\ LogOf(x)' = LogOf(x)
  BY <1>3, <1>4 DEF Entries, LogOf
<1>7. FileTypes'
  BY <1>1, <1>2, <1>3 DEF FileTypes
<1>8. \A x \in Paths : FileSound(x)'
  <2>1. FileSound(q)'
    BY <1>1, <1>2, <1>3, <1>6 DEF FileSound, Logs!Codex
  <2>2. FileSound(p)'
    BY <1>1, <1>2, <1>3, <1>4, <1>6 DEF FileSound, Logs!Codex
  <2>3. \A x \in Paths \ {p, q} : FileSound(x)'
    BY <1>1, <1>2, <1>3, <1>6 DEF FileSound, Logs!Codex
  <2> QED BY <2>1, <2>2, <2>3
<1>9. OneFile'
  <2> SUFFICES ASSUME NEW x \in Paths, NEW y \in Paths, Readable(x)', Readable(y)',
                      disk'[x].session = disk'[y].session
               PROVE  x = y
    BY DEF OneFile
  <2>1. x # p /\ y # p
    BY <1>5
  <2>2. CASE x = q /\ y # q
    BY <1>1, <1>3, <1>5, <2>1, <2>2 DEF OneFile
  <2>3. CASE y = q /\ x # q
    BY <1>1, <1>3, <1>5, <2>1, <2>3 DEF OneFile
  <2>4. CASE x # q /\ y # q
    BY <1>1, <1>3, <1>5, <2>1, <2>4 DEF OneFile
  <2> QED BY <2>2, <2>3, <2>4
<1>10. FilesSound' /\ NothingUsed'
  BY <1>1, <1>2, <1>7, <1>8, <1>9 DEF FilesSound, NothingUsed
<1>11. Narrows
  <2>1. written <= written' /\ horizon <= horizon'
    BY <1>1, <1>2 DEF FileTypes
  <2>2. ASSUME NEW x \in Paths, Readable(x)'
        PROVE  \E y \in Paths :
                 /\ Readable(y) /\ disk'[x].session = disk[y].session
                 /\ disk'[x].created = disk[y].created
                 /\ \A i \in Entries(x)' : i \in Entries(y) /\ LogOf(x)'[i] = LogOf(y)[i]
    <3>1. CASE x = q
      BY <1>3, <1>5, <1>6, <3>1
    <3>2. CASE x # q
      BY <1>3, <1>5, <1>6, <2>2, <3>2
    <3> QED BY <3>1, <3>2
  <2> QED BY <1>2, <2>1, <2>2 DEF Narrows
<1>12. \A d : \A r \in LogRecord : IsRead(d, r) => IsRead(d, r)'
  BY <1>1, <1>10, <1>11, NarrowsKeeps
<1>13. db.points[q] = Logs!NoPoint /\ \A x \in Paths : PointSound(db, x) /\ ReadTo(db, x)
  BY <1>1, <1>2 DEF StoreSound, PointSound
<1>14. PointSound(db, q)' /\ ReadTo(db, q)'
  <2>1. Logs!Size(disk[p]) \in Nat
    <3>1. disk[p].log \in Seq(LogRecord) /\ (disk[p].torn => disk[p].log # <<>>)
      BY <1>1, <1>3 DEF LogFile, FileSound
    <3>2. Len(disk[p].log) \in Nat /\ (disk[p].torn => Len(disk[p].log) > 0)
      BY <3>1
    <3> QED BY <3>2 DEF Logs!Size
  <2>2. ~Logs!Shrunk(db, q)'
    BY <1>2, <1>3, <1>13, <2>1 DEF Logs!Shrunk, Logs!NoPoint
  <2>3. \A i \in Entries(q)' : ~(2 * i <= 0)
    BY DEF Entries
  <2> QED BY <1>2, <1>3, <1>13, <2>2, <2>3 DEF PointSound, ReadTo, Logs!NoPoint
<1>15. PointSound(db, p)' /\ ReadTo(db, p)'
  BY <1>2, <1>3, <1>4, <1>5, <1>13 DEF PointSound, ReadTo
<1>16. ASSUME NEW x \in Paths \ {p, q} PROVE PointSound(db, x)' /\ ReadTo(db, x)'
  <2>1. \A i \in Entries(x) : LogOf(x)[i] \in LogRecord
    BY <1>1, EntryTyped
  <2>2. PointSound(db, x)'
    BY <1>2, <1>3, <1>13 DEF PointSound, Logs!Shrunk
  <2>3. ReadTo(db, x)'
    BY <1>2, <1>3, <1>5, <1>6, <1>12, <1>13, <2>1 DEF ReadTo, Logs!Shrunk
  <2> QED BY <2>2, <2>3
<1>17. StoreSound(db)'
  <2> DEFINE P == {x \in Paths : PointSound(db, x)' /\ ReadTo(db, x)'}
  <2>1. P = Paths
    BY <1>14, <1>15, <1>16
  <2> HIDE DEF P
  <2> QED BY <1>10, <1>11, <2>1, NarrowsSound DEF P
<1> QED BY <1>10, <1>17 DEF ImportInv

-----------------------------------------------------------------------------
(* A record is written *)

(* The record r comes to the end of the file p, which is f then,           *)
Appended(p, f, r) ==
  /\ disk' = [disk EXCEPT ![p] = f] /\ written' = written + 1
  /\ UNCHANGED <<logTool, horizon, db>>
  /\ Readable(p) /\ ~disk[p].torn
  /\ f \in LogFile /\ f.state = "file" /\ f.session = disk[p].session /\ f.stamp = written + 1
  /\ r \in LogRecord /\ r.id = disk[p].session /\ r.time = written + 1
  /\ Len(f.log) = Len(LogOf(p)) + 1 /\ f.log[Len(LogOf(p)) + 1] = r
  /\ \A i \in Entries(p) : f.log[i] = LogOf(p)[i]
  /\ f.created <= written + 1
  /\ disk[p].state # "never" => f.created = disk[p].created
  /\ Logs!Shrunk(db, p) => Logs!Size(disk[p]) + 2 <= db.points[p].size

(* and its session has used what it says, or nothing.                      *)
Used(s, r) ==
  /\ total' \in [Paths -> Int] /\ spent' \in [Paths -> Nat]
  /\ \A x \in Paths : x # s => total'[x] = total[x] /\ spent'[x] = spent[x]
  /\ spent[s] <= spent'[s] /\ total'[s] - total[s] <= spent'[s] - spent[s]
  /\ Logs!Codex /\ r.value # Logs!Junk => r.value > 0 /\ total'[s] = r.value

(* What the files are after a record.                                      *)
LEMMA AppendedLog ==
  ASSUME ImportInv, NEW p \in Paths, NEW f, NEW r, Appended(p, f, r)
  PROVE  LET n == Len(LogOf(p)) IN
         /\ written \in Nat /\ written' = written + 1 /\ written' \in Nat
         /\ disk \in [Paths -> LogFile] /\ disk' \in [Paths -> LogFile]
         /\ disk'[p] = f /\ \A q \in Paths \ {p} : disk'[q] = disk[q]
         /\ n \in Nat /\ Entries(p) = 1 .. n /\ Entries(p)' = 1 .. n + 1
         /\ LogOf(p)'[n + 1] = r
         /\ \A i \in 1 .. n : LogOf(p)'[i] = LogOf(p)[i]
         /\ \A q \in Paths \ {p} : Entries(q)' = Entries(q) /\ LogOf(q)' = LogOf(q)
         /\ \A q \in Paths : (Readable(q)' <=> Readable(q)) /\ disk'[q].session = disk[q].session
         /\ \A q \in Paths : \A i \in Entries(q) :
              LET x == LogOf(q)[i] IN
              x \in LogRecord /\ x.id = disk[q].session /\ x.time \in Nat /\ x.time <= written
<1>1. /\ written \in Nat /\ disk \in [Paths -> LogFile] /\ FilesSound
      /\ \A q \in Paths : FileSound(q)
  BY DEF ImportInv, FilesSound, FileTypes
<1>2. /\ disk' = [disk EXCEPT ![p] = f] /\ written' = written + 1 /\ f \in LogFile
      /\ f.state = "file" /\ f.session = disk[p].session /\ Readable(p)
      /\ Len(f.log) = Len(LogOf(p)) + 1 /\ f.log[Len(LogOf(p)) + 1] = r
      /\ \A i \in Entries(p) : f.log[i] = LogOf(p)[i]
  BY DEF Appended
<1>3. /\ disk' \in [Paths -> LogFile] /\ disk'[p] = f
      /\ \A q \in Paths \ {p} : disk'[q] = disk[q]
  BY <1>1, <1>2
<1>4. Len(LogOf(p)) \in Nat
  BY <1>1 DEF LogFile, LogOf
<1>5. \A q \in Paths : \A i \in Entries(q) :
        LET x == LogOf(q)[i] IN
        x \in LogRecord /\ x.id = disk[q].session /\ x.time \in Nat /\ x.time <= written
  BY <1>1, EntryTyped DEF FileSound, LogRecord
<1>6. /\ Entries(p) = 1 .. Len(LogOf(p)) /\ Entries(p)' = 1 .. Len(LogOf(p)) + 1
      /\ LogOf(p)' = f.log
  BY <1>2, <1>3 DEF Entries, LogOf
<1>7. \A q \in Paths \ {p} : Entries(q)' = Entries(q) /\ LogOf(q)' = LogOf(q)
  BY <1>3 DEF Entries, LogOf
<1>8. \A q \in Paths : (Readable(q)' <=> Readable(q)) /\ disk'[q].session = disk[q].session
  BY <1>2, <1>3 DEF Readable
<1> QED BY <1>1, <1>2, <1>3, <1>4, <1>5, <1>6, <1>7, <1>8

(* The files are sound after it.                                           *)
LEMMA AppendedFiles ==
  ASSUME ImportInv, NEW p \in Paths, NEW f, NEW r, Appended(p, f, r), Used(disk[p].session, r)
  PROVE  FilesSound' /\ NothingUsed'
<1> DEFINE n == Len(LogOf(p))
           s == disk[p].session
<1>1. /\ FileTypes /\ OneFile /\ \A q \in Paths : FileSound(q)
      /\ horizon' = horizon /\ logTool' = logTool
  BY DEF ImportInv, FilesSound, Appended
<1>2. /\ written \in Nat /\ written' = written + 1 /\ written' \in Nat
      /\ disk \in [Paths -> LogFile] /\ disk' \in [Paths -> LogFile]
      /\ disk'[p] = f /\ \A q \in Paths \ {p} : disk'[q] = disk[q]
      /\ n \in Nat /\ Entries(p) = 1 .. n /\ Entries(p)' = 1 .. n + 1
      /\ LogOf(p)'[n + 1] = r
      /\ \A i \in 1 .. n : LogOf(p)'[i] = LogOf(p)[i]
      /\ \A q \in Paths \ {p} : Entries(q)' = Entries(q) /\ LogOf(q)' = LogOf(q)
      /\ \A q \in Paths : (Readable(q)' <=> Readable(q)) /\ disk'[q].session = disk[q].session
      /\ \A q \in Paths : \A i \in Entries(q) :
           LET x == LogOf(q)[i] IN
           x \in LogRecord /\ x.id = disk[q].session /\ x.time \in Nat /\ x.time <= written
  BY AppendedLog
<1> HIDE DEF n
<1>3. FileTypes'
  BY <1>1, <1>2 DEF FileTypes, Used
<1>4. OneFile'
  BY <1>1, <1>2 DEF OneFile
<1>5. NothingUsed'
  BY <1>2 DEF NothingUsed
<1>6. \A x \in Nat : x <= written => x <= written'
  BY <1>2
<1>7. ASSUME NEW q \in Paths \ {p} PROVE FileSound(q)'
  <2>1. disk[q].created \in Nat /\ disk[q].stamp \in Nat
    BY <1>2 DEF LogFile
  <2>2. disk[q].state = "never" => total'[q] = total[q]
    <3> SUFFICES ASSUME disk[q].state = "never", q = s PROVE FALSE
      BY DEF Used
    <3>1. disk[q].session = q /\ Readable(q) /\ Readable(p)
      BY <1>1 DEF FileSound, Readable, Appended
    <3> QED BY <1>1, <3>1 DEF OneFile
  <2> QED BY <1>1, <1>2, <1>6, <2>1, <2>2 DEF FileSound, Logs!Codex
<1>8. FileSound(p)'
  <2>1. /\ f.state = "file" /\ f.stamp = written' /\ f.created <= written' /\ f.session = s
        /\ r.id = s /\ r.time = written' /\ ~disk[p].torn
    BY <1>2 DEF Appended
  <2>2. f.log # <<>>
    <3>1. Len(f.log) = n + 1 /\ Len(f.log) > 0
      BY <1>2 DEF Appended, n
    <3> QED BY <3>1
  <2>3. Logs!Codex' => r.value = Logs!Junk \/ r.value > 0
    BY <1>1 DEF Used, Logs!Codex
  <2>4. ASSUME NEW i \in 1 .. n + 1
        PROVE  /\ LogOf(p)'[i].id = s
               /\ 1 <= LogOf(p)'[i].time /\ LogOf(p)'[i].time <= written'
               /\ Logs!Codex' => LogOf(p)'[i].value = Logs!Junk \/ LogOf(p)'[i].value > 0
               /\ \A j \in 1 .. n + 1 : i < j => LogOf(p)'[i].time < LogOf(p)'[j].time
    <3>1. CASE i = n + 1
      <4>1. \A j \in 1 .. n + 1 : ~(i < j)
        BY <1>2, <3>1
      <4>2. LogOf(p)'[i] = r /\ 1 <= written' /\ written' <= written'
        BY <1>2, <3>1
      <4> QED BY <2>1, <2>3, <4>1, <4>2
    <3>2. CASE i # n + 1
      <4>1. i \in 1 .. n /\ i \in Entries(p)
        BY <1>2, <3>2
      <4>2. LogOf(p)'[i] = LogOf(p)[i] /\ LogOf(p)[i].time < written'
        BY <1>2, <4>1
      <4>3. /\ LogOf(p)[i].id = s /\ 1 <= LogOf(p)[i].time /\ LogOf(p)[i].time <= written'
            /\ Logs!Codex' => LogOf(p)[i].value = Logs!Junk \/ LogOf(p)[i].value > 0
            /\ \A j \in Entries(p) : i < j => LogOf(p)[i].time < LogOf(p)[j].time
        BY <1>1, <1>2, <1>6, <4>1 DEF FileSound, Logs!Codex
      <4>4. ASSUME NEW j \in 1 .. n + 1, i < j PROVE LogOf(p)'[i].time < LogOf(p)'[j].time
        <5>1. CASE j = n + 1
          BY <1>2, <2>1, <4>2, <5>1
        <5>2. CASE j # n + 1
          <6>1. j \in 1 .. n
            BY <1>2, <5>2
          <6> QED BY <1>2, <4>2, <4>3, <4>4, <6>1
        <5> QED BY <5>1, <5>2
      <4> QED BY <4>2, <4>3, <4>4
    <3> QED BY <3>1, <3>2
  <2> HIDE DEF s
  <2>5. disk'[p].log = f.log
    BY <1>2
  <2> QED BY <1>2, <2>1, <2>2, <2>4, <2>5 DEF FileSound, s
<1> QED BY <1>3, <1>4, <1>5, <1>7, <1>8 DEF FilesSound

(* What each session had used goes on with what it has used now.           *)
Prolongs(g, h) ==
  /\ h \in [Paths -> [Nat -> Nat]]
  /\ \A x \in Paths : \A t \in Nat : h[x][t] = IF written < t THEN spent'[x] ELSE g[x][t]

(* It is a story, again,                                                   *)
LEMMA StoryProlonged ==
  ASSUME FileTypes, NEW g, Story(g), NEW h, Prolongs(g, h), written' = written + 1,
         spent' \in [Paths -> Nat], \A x \in Paths : spent[x] <= spent'[x]
  PROVE  Story(h)'
<1>1. written \in Nat /\ spent \in [Paths -> Nat]
  BY DEF FileTypes
<1>2. ASSUME NEW x \in Paths, NEW t \in Nat, NEW u \in Nat
      PROVE  (t <= u => h[x][t] <= h[x][u]) /\ (written' <= t => h[x][t] = spent'[x])
  <2>1. /\ g[x][t] \in Nat /\ g[x][u] \in Nat /\ spent[x] \in Nat /\ spent'[x] \in Nat
        /\ t <= u => g[x][t] <= g[x][u]
        /\ t <= written => g[x][t] <= spent[x]
    <3>1. /\ g \in [Paths -> [Nat -> Nat]] /\ (t <= u => g[x][t] <= g[x][u])
          /\ t <= written => g[x][t] <= g[x][written]
      BY <1>1 DEF Story
    <3>2. g[x][written] = spent[x]
      BY <1>1 DEF Story
    <3> QED BY <1>1, <3>1, <3>2
  <2>2. /\ h[x][t] = IF written < t THEN spent'[x] ELSE g[x][t]
        /\ h[x][u] = IF written < u THEN spent'[x] ELSE g[x][u]
        /\ spent[x] <= spent'[x]
    BY DEF Prolongs
  <2> QED BY <1>1, <2>1, <2>2
<1> QED BY <1>2 DEF Story, Prolongs

(* The facts of a step that appends, for the sessions.                     *)
LEMMA ToldProlonged ==
  ASSUME ImportInv, Logs!Codex,
         NEW p \in Paths, NEW f, NEW r, Appended(p, f, r), Used(disk[p].session, r),
         NEW k, NEW g, Told(g, k), NEW h, Prolongs(g, h)
  PROVE  Told(h, k)'
<1> DEFINE n == Len(LogOf(p))
           s == disk[p].session
<1>1. /\ FileTypes /\ OneFile /\ \A q \in Paths : FileSound(q)
      /\ horizon' = horizon /\ logTool' = logTool /\ Readable(p)
      /\ total' \in [Paths -> Int] /\ spent' \in [Paths -> Nat]
      /\ \A x \in Paths : x # s => total'[x] = total[x] /\ spent'[x] = spent[x]
      /\ spent[s] <= spent'[s] /\ total'[s] - total[s] <= spent'[s] - spent[s]
      /\ r.value # Logs!Junk => r.value > 0 /\ total'[s] = r.value
  BY DEF ImportInv, FilesSound, Appended, Used
<1>2. /\ written \in Nat /\ written' = written + 1 /\ written' \in Nat
      /\ disk \in [Paths -> LogFile] /\ disk' \in [Paths -> LogFile]
      /\ disk'[p] = f /\ \A q \in Paths \ {p} : disk'[q] = disk[q]
      /\ n \in Nat /\ Entries(p) = 1 .. n /\ Entries(p)' = 1 .. n + 1
      /\ LogOf(p)'[n + 1] = r
      /\ \A i \in 1 .. n : LogOf(p)'[i] = LogOf(p)[i]
      /\ \A q \in Paths \ {p} : Entries(q)' = Entries(q) /\ LogOf(q)' = LogOf(q)
      /\ \A q \in Paths : (Readable(q)' <=> Readable(q)) /\ disk'[q].session = disk[q].session
      /\ \A q \in Paths : \A i \in Entries(q) :
           LET x == LogOf(q)[i] IN
           x \in LogRecord /\ x.id = disk[q].session /\ x.time \in Nat /\ x.time <= written
  BY AppendedLog
<1>3. Story(g) /\ \A q \in Paths : Readable(q) => Spends(g, k, q)
  BY DEF Told
<1>4. s \in Paths
  BY <1>2 DEF LogFile
<1> HIDE DEF n, s
<1>5. \A x \in Paths : spent[x] <= spent'[x]
  <2>1. \A x \in Paths : spent[x] \in Nat
    BY <1>1 DEF FileTypes
  <2> QED BY <1>1, <2>1
<1>6. Story(h)'
  BY <1>1, <1>2, <1>3, <1>5, StoryProlonged
<1>7. \A x \in Paths : \A t \in Nat : h[x][t] = IF written < t THEN spent'[x] ELSE g[x][t]
  BY DEF Prolongs
<1>8. ASSUME NEW q \in Paths \ {p}, Readable(q)' PROVE Spends(h, k, q)'
  <2> DEFINE u == disk[q].session
  <2>1. Readable(q) /\ Spends(g, k, q)
    BY <1>2, <1>3, <1>8
  <2>2. u # s /\ u \in Paths
    BY <1>1, <1>2, <2>1 DEF OneFile, LogFile, s
  <2>3. total'[u] = total[u] /\ spent'[u] = spent[u]
    BY <1>1, <2>2
  <2>4. \A i \in Entries(q) : h[u][LogOf(q)[i].time] = g[u][LogOf(q)[i].time]
    <3> SUFFICES ASSUME NEW i \in Entries(q)
                 PROVE  h[u][LogOf(q)[i].time] = g[u][LogOf(q)[i].time]
      OBVIOUS
    <3>1. LogOf(q)[i].time \in Nat /\ ~(written < LogOf(q)[i].time)
      BY <1>2
    <3> QED BY <1>7, <2>2, <3>1
  <2> HIDE DEF u
  <2> QED BY <1>2, <2>1, <2>3, <2>4 DEF Spends, Young, Usable, u
<1>9. ASSUME Readable(p)' PROVE Spends(h, k, p)'
  <2>1. Spends(g, k, p)
    BY <1>1, <1>3
  <2>2. Young(k, p)' => total'[s] <= spent'[s]
    <3>1. total[s] \in Int /\ spent[s] \in Nat /\ total'[s] \in Int /\ spent'[s] \in Nat
      BY <1>1, <1>4 DEF FileTypes
    <3>2. CASE disk[p].state = "never"
      <4>1. total[s] = 0
        BY <1>1, <3>2 DEF FileSound, s
      <4> QED BY <1>1, <3>1, <4>1
    <3>3. CASE disk[p].state # "never"
      <4>1. Young(k, p)' => Young(k, p)
        BY <1>2, <3>3 DEF Young, Appended
      <4>2. Young(k, p) => total[s] <= spent[s]
        BY <2>1 DEF Spends, s
      <4> QED BY <1>1, <3>1, <4>1, <4>2
    <3> QED BY <3>2, <3>3
  <2>3. ASSUME NEW i \in 1 .. n, Usable(k, LogOf(p)[i])
        PROVE  LET x == LogOf(p)[i] IN
               /\ h[s][x.time] = g[s][x.time] /\ g[s][x.time] \in Nat
               /\ total'[s] - x.value <= spent'[s] - g[s][x.time]
               /\ Young(k, p)' => x.value <= g[s][x.time]
    <3> DEFINE x == LogOf(p)[i]
    <3>1. x.time \in Nat /\ ~(written < x.time) /\ x.value \in Int /\ i \in Entries(p)
      BY <1>2 DEF LogRecord
    <3>2. h[s][x.time] = g[s][x.time] /\ g[s][x.time] \in Nat
      BY <1>3, <1>4, <1>7, <3>1 DEF Story
    <3>3. /\ total[s] - x.value <= spent[s] - g[s][x.time]
          /\ Young(k, p) => x.value <= g[s][x.time]
      BY <2>1, <2>3, <3>1 DEF Spends, s
    <3>4. Young(k, p)' => Young(k, p)
      <4>1. disk[p].state # "never"
        <5>1. disk[p].state = "never" => LogOf(p) = <<>>
          BY <1>1 DEF FileSound, LogOf
        <5>2. n # 0
          BY <1>2
        <5> QED BY <5>1, <5>2 DEF n
      <4> QED BY <1>2, <4>1 DEF Young, Appended
    <3>5. total[s] \in Int /\ spent[s] \in Nat /\ total'[s] \in Int /\ spent'[s] \in Nat
      BY <1>1, <1>4 DEF FileTypes
    <3> HIDE DEF x
    <3>6. total'[s] - x.value <= spent'[s] - g[s][x.time]
      BY <1>1, <3>1, <3>2, <3>3, <3>5
    <3> QED BY <3>2, <3>3, <3>4, <3>6 DEF x
  <2>4. h[s][r.time] = spent'[s] /\ (Usable(k, r) => r.value = total'[s] /\ r.value > 0)
    <3>1. r.time = written + 1 /\ r.time \in Nat /\ written < r.time
      BY <1>2 DEF Appended
    <3> QED BY <1>1, <1>4, <1>7, <3>1 DEF Usable
  <2>5. ASSUME NEW i \in 1 .. n + 1, Usable(k, LogOf(p)'[i])
        PROVE  LET x == LogOf(p)'[i] IN
               /\ total'[s] - x.value <= spent'[s] - h[s][x.time]
               /\ Young(k, p)' => x.value <= h[s][x.time]
               /\ \A j \in 1 .. n + 1 : i < j /\ Usable(k, LogOf(p)'[j]) =>
                    LogOf(p)'[j].value - x.value <= h[s][LogOf(p)'[j].time] - h[s][x.time]
    <3>0. total'[s] \in Int /\ spent'[s] \in Nat
      BY <1>1, <1>4
    <3>1. CASE i = n + 1
      <4>1. LogOf(p)'[i] = r /\ \A j \in 1 .. n + 1 : ~(i < j)
        BY <1>2, <3>1
      <4>2. Usable(k, r)
        BY <2>5, <4>1
      <4>3. total'[s] - r.value <= spent'[s] - h[s][r.time]
        BY <2>4, <3>0, <4>2
      <4>4. Young(k, p)' => r.value <= h[s][r.time]
        BY <2>2, <2>4, <4>2
      <4> QED BY <4>1, <4>3, <4>4
    <3>2. CASE i # n + 1
      <4> DEFINE x == LogOf(p)[i]
      <4>1. i \in 1 .. n /\ i \in Entries(p)
        BY <1>2, <3>2
      <4>2. LogOf(p)'[i] = x /\ Usable(k, x)
        BY <1>2, <2>5, <4>1
      <4>3. /\ h[s][x.time] = g[s][x.time]
            /\ total'[s] - x.value <= spent'[s] - g[s][x.time]
            /\ Young(k, p)' => x.value <= g[s][x.time]
        BY <2>3, <4>1, <4>2
      <4>4. ASSUME NEW j \in 1 .. n + 1, i < j, Usable(k, LogOf(p)'[j])
            PROVE  LogOf(p)'[j].value - x.value <= h[s][LogOf(p)'[j].time] - h[s][x.time]
        <5>1. CASE j = n + 1
          <6>1. LogOf(p)'[j] = r /\ Usable(k, r)
            BY <1>2, <4>4, <5>1
          <6> QED BY <2>4, <4>3, <6>1
        <5>2. CASE j # n + 1
          <6>1. j \in 1 .. n /\ j \in Entries(p) /\ LogOf(p)'[j] = LogOf(p)[j]
            BY <1>2, <5>2
          <6>2. Usable(k, LogOf(p)[j]) /\ h[s][LogOf(p)[j].time] = g[s][LogOf(p)[j].time]
            BY <2>3, <4>4, <6>1
          <6>3. LogOf(p)[j].value - x.value <= g[s][LogOf(p)[j].time] - g[s][x.time]
            BY <2>1, <4>1, <4>2, <4>4, <6>1, <6>2 DEF Spends, s
          <6> QED BY <4>3, <6>1, <6>2, <6>3
        <5> QED BY <5>1, <5>2
      <4> HIDE DEF x
      <4> QED BY <4>2, <4>3, <4>4
    <3> QED BY <3>1, <3>2
  <2>6. disk'[p].session = s
    BY <1>2 DEF s
  <2> QED BY <1>2, <2>2, <2>5, <2>6 DEF Spends, Usable
<1> QED BY <1>6, <1>8, <1>9 DEF Told

(* and a session that was read is sound by it: the record is later than    *)
(* its counter and says no more than was used since.                       *)
LEMMA ReadsProlonged ==
  ASSUME ImportInv, Logs!Codex,
         NEW p \in Paths, NEW f, NEW r, Appended(p, f, r), Used(disk[p].session, r),
         NEW d \in ImportDB, NEW g, Story(g), NEW h, Prolongs(g, h),
         NEW x \in Paths, NEW row, Reads(g, d, x, row)
  PROVE  Reads(h, d, x, row)'
<1> DEFINE n == Len(LogOf(p))
           s == disk[p].session
           c == d.counters[x]
<1>1. /\ FileTypes /\ OneFile /\ \A q \in Paths : FileSound(q)
      /\ horizon' = horizon /\ logTool' = logTool /\ Readable(p)
      /\ total' \in [Paths -> Int] /\ spent' \in [Paths -> Nat]
      /\ \A y \in Paths : y # s => total'[y] = total[y] /\ spent'[y] = spent[y]
      /\ spent[s] <= spent'[s] /\ total'[s] - total[s] <= spent'[s] - spent[s]
      /\ r.value # Logs!Junk => r.value > 0 /\ total'[s] = r.value
  BY DEF ImportInv, FilesSound, Appended, Used
<1>2. /\ written \in Nat /\ written' = written + 1 /\ written' \in Nat
      /\ disk \in [Paths -> LogFile] /\ disk' \in [Paths -> LogFile]
      /\ disk'[p] = f /\ \A q \in Paths \ {p} : disk'[q] = disk[q]
      /\ n \in Nat /\ Entries(p) = 1 .. n /\ Entries(p)' = 1 .. n + 1
      /\ LogOf(p)'[n + 1] = r
      /\ \A i \in 1 .. n : LogOf(p)'[i] = LogOf(p)[i]
      /\ \A q \in Paths \ {p} : Entries(q)' = Entries(q) /\ LogOf(q)' = LogOf(q)
      /\ \A q \in Paths : (Readable(q)' <=> Readable(q)) /\ disk'[q].session = disk[q].session
      /\ \A q \in Paths : \A i \in Entries(q) :
           LET y == LogOf(q)[i] IN
           y \in LogRecord /\ y.id = disk[q].session /\ y.time \in Nat /\ y.time <= written
  BY AppendedLog
<1>3. s \in Paths
  BY <1>2 DEF LogFile
<1> HIDE DEF n, s
<1>4. c.at \in Nat /\ c.value \in Int
  BY DEF ImportDB, Mark
<1>5. /\ d.cutoff < c.at /\ c.at <= written
      /\ total[x] - c.value <= spent[x] - g[x][c.at]
      /\ WholeNumbers(Events(d, x)) /\ \A y \in Events(d, x) : y.time <= c.at
      /\ SumOf(Events(d, x)) <= g[x][c.at]
      /\ SessionRows(d, x) = {row} /\ c.at <= row.last
      /\ ~row.partial => SumOf(Events(d, x)) = c.value
      /\ Within(g, d, x, row)
  BY DEF Reads
<1>6. \A t \in Nat : h[x][t] = IF written < t THEN spent'[x] ELSE g[x][t]
  BY DEF Prolongs
<1> HIDE DEF c
<1>7. c.at <= written' /\ h[x][c.at] = g[x][c.at] /\ g[x][c.at] \in Nat
  <2>1. ~(written < c.at)
    BY <1>2, <1>4, <1>5
  <2>2. g[x][c.at] \in Nat
    BY <1>4 DEF Story
  <2> QED BY <1>2, <1>4, <1>5, <1>6, <2>1, <2>2
<1>8. total'[x] - c.value <= spent'[x] - h[x][c.at]
  <2>1. total[x] \in Int /\ spent[x] \in Nat /\ total'[x] \in Int /\ spent'[x] \in Nat
    BY <1>1 DEF FileTypes
  <2>2. total'[x] - total[x] <= spent'[x] - spent[x]
    <3>1. CASE x = s
      BY <1>1, <3>1
    <3>2. CASE x # s
      <4>1. total'[x] = total[x] /\ spent'[x] = spent[x]
        BY <1>1, <3>2
      <4> QED BY <2>1, <4>1
    <3> QED BY <3>1, <3>2
  <2> QED BY <1>4, <1>5, <1>7, <2>1, <2>2
<1>9. ASSUME NEW q \in Paths, Readable(q), disk[q].session = x, NEW i \in Entries(q)',
             Usable(d.cutoff, LogOf(q)'[i])
      PROVE  LET y == LogOf(q)'[i] IN
             /\ c.at <= y.time => y.value - c.value <= h[x][y.time] - h[x][c.at]
             /\ y.time <= c.at /\ horizon < y.time => row.partial \/ y.value <= c.value
  <2>1. CASE q = p /\ i = n + 1
    <3>1. LogOf(q)'[i] = r /\ x = s
      BY <1>2, <1>9, <2>1 DEF s
    <3>2. r.value = total'[x] /\ r.value \in Int
      BY <1>1, <1>9, <3>1 DEF Usable, Appended, LogRecord
    <3>3. r.time = written + 1 /\ r.time \in Nat /\ written < r.time /\ ~(r.time <= c.at)
      <4>1. r.time = written + 1
        BY DEF Appended
      <4> QED BY <1>2, <1>4, <1>5, <4>1
    <3>4. h[x][r.time] = spent'[x]
      BY <1>6, <3>3
    <3> QED BY <1>8, <3>1, <3>2, <3>3, <3>4
  <2>2. CASE ~(q = p /\ i = n + 1)
    <3> DEFINE y == LogOf(q)[i]
    <3>1. i \in Entries(q) /\ LogOf(q)'[i] = y
      BY <1>2, <2>2
    <3>2. y.time \in Nat /\ ~(written < y.time)
      BY <1>2, <3>1
    <3>3. h[x][y.time] = g[x][y.time]
      BY <1>6, <3>2
    <3>4. /\ c.at <= y.time => y.value - c.value <= g[x][y.time] - g[x][c.at]
          /\ y.time <= c.at /\ horizon < y.time => row.partial \/ y.value <= c.value
      BY <1>5, <1>9, <3>1 DEF Within, c
    <3> HIDE DEF y
    <3> QED BY <1>7, <3>1, <3>3, <3>4
  <2> QED BY <2>1, <2>2
<1>10. Within(h, d, x, row)'
  BY <1>1, <1>2, <1>9 DEF Within, Usable, c
<1> DEFINE E == Events(d, x)
<1>11. /\ WholeNumbers(E) /\ \A y \in E : y.time <= c.at
       /\ SumOf(E) <= g[x][c.at]
       /\ ~row.partial => SumOf(E) = c.value
  BY <1>5
<1>12. E' = E /\ WholeNumbers(E)' = WholeNumbers(E) /\ SumOf(E)' = SumOf(E) /\ SessionRows(d, x)' = SessionRows(d, x)
  BY DEF Events, WholeNumbers, SumOf, SessionRows
<1> HIDE DEF E
<1> QED BY <1>5, <1>7, <1>8, <1>10, <1>11, <1>12 DEF Reads, E, c

(* So is the store.                                                        *)
LEMMA SoundProlonged ==
  ASSUME ImportInv, NEW p \in Paths, NEW f, NEW r, Appended(p, f, r), Used(disk[p].session, r),
         NEW d \in ImportDB, NEW g, Logs!Codex => Story(g), Sound(g, d), NEW h, Prolongs(g, h)
  PROVE  Sound(h, d)'
<1>1. horizon' = horizon /\ logTool' = logTool
  BY DEF Appended
<1>2. CASE Logs!Codex
  <2> SUFFICES ASSUME NEW x \in Paths PROVE Stored(h, d, x)'
    BY <1>1, <1>2 DEF Sound, Logs!Codex
  <2>1. CASE Unread(d, x)
    BY <2>1 DEF Stored, Unread, SessionRows, Events
  <2>2. CASE \E row \in Row : Reads(g, d, x, row)
    <3>1. PICK row \in Row : Reads(g, d, x, row)
      BY <2>2
    <3>2. Reads(h, d, x, row)'
      BY <1>2, <3>1, ReadsProlonged
    <3> QED BY <3>2 DEF Stored
  <2> QED BY <1>2, <2>1, <2>2 DEF Sound, Stored
<1>3. CASE ~Logs!Codex
  BY <1>1, <1>3 DEF Sound, Logs!Codex, MessageStored, Events, SessionRows
<1> QED BY <1>2, <1>3

(* The points are where they were, and what was cut stays shorter.         *)
LEMMA AppendedPoints ==
  ASSUME ImportInv, NEW p \in Paths, NEW f, NEW r, Appended(p, f, r),
         NEW d, d = db, NEW x \in Paths
  PROVE  PointSound(d, x)' /\ ReadTo(d, x)'
<1> DEFINE n == Len(LogOf(p))
<1>1. /\ \A q \in Paths : FileSound(q) /\ PointSound(d, q) /\ ReadTo(d, q)
      /\ horizon' = horizon /\ logTool' = logTool /\ d \in ImportDB
  BY DEF ImportInv, FilesSound, Appended, StoreSound
<1>2. /\ written \in Nat /\ written' = written + 1 /\ written' \in Nat
      /\ disk \in [Paths -> LogFile] /\ disk' \in [Paths -> LogFile]
      /\ disk'[p] = f /\ \A q \in Paths \ {p} : disk'[q] = disk[q]
      /\ n \in Nat /\ Entries(p) = 1 .. n /\ Entries(p)' = 1 .. n + 1
      /\ LogOf(p)'[n + 1] = r
      /\ \A i \in 1 .. n : LogOf(p)'[i] = LogOf(p)[i]
      /\ \A q \in Paths \ {p} : Entries(q)' = Entries(q) /\ LogOf(q)' = LogOf(q)
      /\ \A q \in Paths : (Readable(q)' <=> Readable(q)) /\ disk'[q].session = disk[q].session
  BY AppendedLog
<1>3. \A e, z : IsRead(e, z)' <=> IsRead(e, z)
  BY <1>1 DEF IsRead, TotalRead, MessageRead, Logs!Codex, SessionRows, Events
<1> DEFINE c == d.points[x]
<1>4. c.offset \in Nat /\ c.size \in Int /\ c.stamp \in Nat
  BY <1>1 DEF ImportDB, Point
<1>5. c.stamp <= written /\ c.stamp <= written'
  BY <1>1, <1>2, <1>4 DEF PointSound
<1>6. CASE x # p
  BY <1>1, <1>2, <1>3, <1>5, <1>6 DEF PointSound, ReadTo, Logs!Shrunk
<1>7. CASE x = p
  <2>1. /\ f.state = "file" /\ f.stamp = written + 1 /\ f.torn \in BOOLEAN
        /\ Logs!Size(disk[p]) = 2 * n
        /\ Logs!Size(f) = 2 * n + 2 - (IF f.torn THEN 1 ELSE 0)
    <3>1. /\ f \in LogFile /\ f.state = "file" /\ f.stamp = written + 1
          /\ ~disk[p].torn /\ Len(f.log) = n + 1
      BY DEF Appended
    <3>2. f.torn \in BOOLEAN
      BY <3>1 DEF LogFile
    <3>3. Len(disk[p].log) = n
      BY DEF LogOf
    <3> HIDE DEF n
    <3> QED BY <1>2, <3>1, <3>2, <3>3 DEF Logs!Size
  <2> HIDE DEF n
  <2>2. Logs!Shrunk(d, p) => 2 * n + 2 <= c.size
    BY <1>7, <2>1 DEF Appended
  <2>3. Logs!Shrunk(d, p) <=> 2 * n < c.size \/ (2 * n = c.size /\ disk[p].stamp # c.stamp)
    BY <1>7, <2>1 DEF Logs!Shrunk
  <2>4. Logs!Shrunk(d, p)' <=> Logs!Size(f) < c.size \/ (Logs!Size(f) = c.size /\ f.stamp # c.stamp)
    BY <1>2, <1>7 DEF Logs!Shrunk
  <2>5. f.stamp # c.stamp
    BY <1>2, <1>4, <1>5, <2>1
  <2>6. (c.offset = 0 \/ c.offset <= c.size) /\ \E i \in Nat : c.offset = 2 * i
    BY <1>1 DEF PointSound
  <2> HIDE DEF c
  <2>7. /\ Logs!Shrunk(d, p) => Logs!Shrunk(d, p)'
        /\ Logs!Shrunk(d, p)' /\ f.torn => Logs!Size(f) < c.size
        /\ ~Logs!Shrunk(d, p) => c.size <= 2 * n
    BY <1>2, <1>4, <2>1, <2>2, <2>3, <2>4, <2>5
  <2>8. PointSound(d, p)'
    BY <1>2, <1>5, <1>7, <2>1, <2>6, <2>7 DEF PointSound, c
  <2>9. ReadTo(d, p)'
    <3> SUFFICES ASSUME Readable(p)', ~Logs!Shrunk(d, p)', NEW i \in 1 .. n + 1,
                        2 * i <= c.offset
                 PROVE  IsRead(d, LogOf(p)'[i])
      BY <1>2, <1>3, <1>7 DEF ReadTo, c
    <3>1. i \in 1 .. n
      BY <1>2, <1>4, <2>6, <2>7
    <3>2. IsRead(d, LogOf(p)[i])
      BY <1>1, <1>2, <1>7, <2>7, <3>1 DEF ReadTo, c
    <3> QED BY <1>2, <3>1, <3>2
  <2> QED BY <1>7, <2>8, <2>9
<1> QED BY <1>6, <1>7

(* A record that is appended keeps the invariant,                          *)
LEMMA AppendedSound ==
  ASSUME ImportInv, NEW p \in Paths, NEW f, NEW r, Appended(p, f, r), Used(disk[p].session, r)
  PROVE  ImportInv'
<1>1. FilesSound' /\ NothingUsed'
  BY AppendedFiles
<1>2. StoreSound(db) /\ db' = db /\ db \in ImportDB
  BY DEF ImportInv, Appended, StoreSound
<1>3. PICK d : d = db
  OBVIOUS
<1>4. PICK g : Told(g, d.cutoff) /\ Sound(g, d)
  BY <1>2, <1>3 DEF StoreSound
<1>5. \A x \in Paths : PointSound(d, x)' /\ ReadTo(d, x)'
  BY <1>3, AppendedPoints
<1>6. spent' \in [Paths -> Nat]
  BY DEF Used
<1>7. \E h : Told(h, d.cutoff)' /\ Sound(h, d)'
  <2>1. CASE Logs!Codex
    <3>1. Story(g) /\ g \in [Paths -> [Nat -> Nat]]
      BY <1>4, <2>1 DEF Told, Story
    <3>2. PICK h : h = [x \in Paths |-> [t \in Nat |-> IF written < t THEN spent'[x] ELSE g[x][t]]]
      OBVIOUS
    <3>3. Prolongs(g, h)
      BY <1>6, <3>1, <3>2 DEF Prolongs
    <3>4. Told(h, d.cutoff)'
      BY <1>4, <2>1, <3>3, ToldProlonged
    <3>5. Sound(h, d)'
      BY <1>2, <1>3, <1>4, <3>1, <3>3, SoundProlonged
    <3> QED BY <3>4, <3>5
  <2>2. CASE ~Logs!Codex
    <3>1. ~Logs!Codex' /\ horizon' = horizon
      BY <2>2 DEF Appended, Logs!Codex
    <3>2. Told(g, d.cutoff)'
      BY <3>1 DEF Told
    <3>3. Sound(g, d)'
      BY <1>4, <2>2, <3>1 DEF Sound, MessageStored, Events, SessionRows
    <3> QED BY <3>2, <3>3
  <2> QED BY <2>1, <2>2
<1>8. StoreSound(d)'
  BY <1>2, <1>3, <1>5, <1>7 DEF StoreSound
<1>9. StoreSound(db)'
  BY <1>2, <1>3, <1>8
<1> QED BY <1>1, <1>9 DEF ImportInv

(* whatever the tool writes.                                               *)
LEMMA WriteRecordSound ==
  ASSUME ImportInv, NEW p \in Paths, Logs!WriteRecord(p)
  PROVE  ImportInv'
<1> DEFINE s == disk[p].session
           log == LogOf(p)
           at == written + 1
<1>1. /\ FilesSound /\ FileTypes /\ disk \in [Paths -> LogFile] /\ disk[p] \in LogFile
      /\ written \in Nat /\ FileSound(p) /\ at \in Nat
  BY DEF ImportInv, FilesSound, FileTypes
<1>2. /\ Logs!Shrunk(db, p) => Logs!Size(disk[p]) + 2 <= db.points[p].size
      /\ disk[p].state # "gone" /\ disk[p].state # "refused" /\ ~disk[p].torn
      /\ UNCHANGED <<logTool, horizon, db>>
  BY DEF Logs!WriteRecord, Logs!store
<1>3. PICK v \in 0 .. 2 \cup {Logs!Junk}, torn \in BOOLEAN,
           born \in IF disk[p].state = "never" THEN {0, at} ELSE {disk[p].created} :
        /\ IF v = Logs!Junk THEN UNCHANGED <<total, spent>> ELSE Logs!Value(s, v)
        /\ Logs!Written(p, [disk[p] EXCEPT !.state = "file", !.created = born, !.torn = torn,
                              !.log = Append(@, [id |-> s, time |-> at, value |-> v])])
  BY DEF Logs!WriteRecord
<1> DEFINE r == [id |-> s, time |-> at, value |-> v]
           longer == Append(log, r)
           kind == "file"
           f == [disk[p] EXCEPT !.state = kind, !.created = born, !.torn = torn, !.log = longer,
                                !.stamp = at]
<1>4. /\ s \in Paths /\ log \in Seq(LogRecord) /\ born \in Nat /\ born <= at
      /\ disk[p].state # "never" => born = disk[p].created
      /\ v \in -1 .. 2
  <2>1. disk[p].created \in Nat /\ disk[p].created <= written
    BY <1>1 DEF LogFile, FileSound
  <2>2. born \in Nat /\ born <= at
    BY <1>1, <2>1
  <2>3. v \in -1 .. 2
    BY DEF Logs!Junk
  <2> QED BY <1>1, <2>2, <2>3 DEF LogFile, LogOf
<1>5. disk' = [disk EXCEPT ![p] = f] /\ written' = at
  BY <1>1, <1>3 DEF Logs!Written, LogFile, LogOf
<1>6. r \in LogRecord /\ r.id = s /\ r.time = at /\ r.value = v
  BY <1>1, <1>4 DEF LogRecord
<1> HIDE DEF r, log
<1>7. /\ longer \in Seq(LogRecord) /\ Len(longer) = Len(log) + 1 /\ longer[Len(log) + 1] = r
      /\ \A i \in 1 .. Len(log) : longer[i] = log[i]
  BY <1>4, <1>6
<1>8. kind \in {"never", "file", "refused", "gone"} /\ kind = "file"
  OBVIOUS
<1> HIDE DEF longer, kind, at
<1>9. /\ f \in LogFile /\ f.state = kind /\ f.session = disk[p].session /\ f.created = born
      /\ f.log = longer /\ f.torn = torn /\ f.stamp = at
  BY <1>1, <1>4, <1>7, <1>8 DEF LogFile
<1> HIDE DEF f
<1>10. Appended(p, f, r)
  <2>1. Entries(p) = 1 .. Len(log) /\ Readable(p)
    BY <1>1, <1>2 DEF Entries, LogOf, log, Readable, LogFile
  <2> QED BY <1>2, <1>4, <1>5, <1>6, <1>7, <1>8, <1>9, <2>1 DEF Appended, at, log, s
<1>11. Used(s, r)
  <2>1. total \in [Paths -> Int] /\ spent \in [Paths -> Nat]
    BY <1>1 DEF FileTypes
  <2>2. CASE v = Logs!Junk \/ ~Logs!Codex
    <3>1. total' = total /\ spent' = spent
      BY <1>3, <2>2 DEF Logs!Value
    <3> QED BY <1>4, <1>6, <2>1, <2>2, <3>1 DEF Used
  <2>3. CASE v # Logs!Junk /\ Logs!Codex
    <3>1. /\ v \in {total[s], total[s] + 1} \cup (IF total[s] > 1 THEN {1} ELSE {}) /\ v > 0
          /\ total' = [total EXCEPT ![s] = v]
          /\ spent' = [spent EXCEPT ![s] = IF v = total[s] THEN @ ELSE @ + 1]
      BY <1>3, <2>3 DEF Logs!Value
    <3>2. total[s] \in Int /\ spent[s] \in Nat /\ v \in Int
      BY <1>4, <2>1
    <3>3. /\ total' \in [Paths -> Int] /\ spent' \in [Paths -> Nat]
          /\ total'[s] = v /\ spent'[s] = IF v = total[s] THEN spent[s] ELSE spent[s] + 1
          /\ \A x \in Paths : x # s => total'[x] = total[x] /\ spent'[x] = spent[x]
      BY <1>4, <2>1, <3>1, <3>2
    <3>4. spent[s] <= spent'[s] /\ total'[s] - total[s] <= spent'[s] - spent[s]
      BY <3>1, <3>2, <3>3
    <3> QED BY <1>6, <2>3, <3>1, <3>3, <3>4 DEF Used
  <2> QED BY <2>2, <2>3
<1> QED BY <1>10, <1>11, AppendedSound DEF s

-----------------------------------------------------------------------------
(* The steps *)

(* Every step keeps the invariant.                                         *)
LEMMA ImportSteps == ImportInv /\ [Logs!Next]_(Logs!vars) => ImportInv'
<1> SUFFICES ASSUME ImportInv, [Logs!Next]_(Logs!vars) PROVE ImportInv'
  OBVIOUS
<1>1. CASE UNCHANGED Logs!vars \/ Logs!AbandonScan
  <2>1. UNCHANGED ofFiles /\ db' = db
    BY <1>1 DEF Logs!vars, Logs!AbandonScan, Logs!files, Logs!store, ofFiles
  <2> QED BY <2>1, SameFiles DEF ImportInv
<1>2. CASE \E p \in Paths : Logs!WriteRecord(p) \/ Logs!CompleteRecord(p) \/ Logs!Cut(p)
                            \/ Logs!BecomesRefused(p)
  BY <1>2, WriteRecordSound, CompleteRecordSound, CutSound, BecomesRefusedSound
<1>3. CASE \E p, q \in Paths : Logs!Move(p, q)
  BY <1>3, MoveSound
<1>4. CASE Logs!Scans
  BY <1>4, BeginScanSound, ImportFileSound, EndScanSound DEF Logs!Scans
<1> QED BY <1>1, <1>2, <1>3, <1>4, AgeSound, ClearSessionsSound DEF Logs!Next

-----------------------------------------------------------------------------
(* What the invariant says *)

(* The sum that is shown of a session is that of its events.               *)
LEMMA ImportSum == \A s : Logs!Sum(s) = SumOf(Events(db, s))
<1>1. \A s : Logs!Sum(s) = Logs!SumFunction([x \in {y \in db.events : y.id = s} |-> x.delta])
  BY DEF Logs!Sum
<1>2. \A s : SumOf(Events(db, s)) = Logs!SumFunction([x \in {y \in db.events : y.id = s} |-> x.delta])
  BY DEF SumOf, Events
<1> QED BY <1>1, <1>2

(* No more is shown of a session than was used since the deletion.         *)
LEMMA CountedOnceHolds == ImportInv => Logs!CountedOnce
<1> SUFFICES ASSUME ImportInv, Logs!Codex, NEW s \in Paths PROVE Logs!Sum(s) <= spent[s]
  BY DEF Logs!CountedOnce
<1>1. StoreSound(db) /\ FileTypes /\ db \in ImportDB
  BY DEF ImportInv, FilesSound, StoreSound
<1>2. PICK g : Story(g) /\ Stored(g, db, s)
  BY <1>1 DEF StoreSound, Told, Sound
<1>3. spent[s] \in Nat /\ written \in Nat
  BY <1>1 DEF FileTypes
<1>4. CASE Unread(db, s)
  <2>1. Logs!Sum(s) = 0
    BY <1>4, ImportSum, SumOfNone DEF Unread
  <2> QED BY <1>3, <2>1
<1>5. CASE \E row \in Row : Reads(g, db, s, row)
  <2> DEFINE E == Events(db, s)
             at == db.counters[s].at
  <2>1. WholeNumbers(E) /\ SumOf(E) <= g[s][at] /\ at <= written
    BY <1>5 DEF Reads
  <2>2. at \in Nat
    BY <1>1 DEF ImportDB, Mark
  <2> HIDE DEF at
  <2>3. g[s][at] <= g[s][written] /\ g[s][written] = spent[s] /\ g[s][at] \in Nat
    BY <1>2, <1>3, <2>1, <2>2 DEF Story
  <2>4. SumOf(E) \in Nat /\ Logs!Sum(s) = SumOf(E)
    BY <2>1, SumOfType, ImportSum
  <2> HIDE DEF E
  <2> QED BY <1>3, <2>1, <2>3, <2>4
<1> QED BY <1>2, <1>4, <1>5 DEF Stored

(* A file that was read to its end was read.                               *)
LEMMA ReadAtEnd ==
  ASSUME ImportInv, NEW p \in Paths, disk[p].state = "file", Logs!AtEnd(p), NEW i \in DOMAIN disk[p].log
  PROVE  i \in Entries(p) /\ IsRead(db, LogOf(p)[i])
<1> DEFINE n == Len(LogOf(p))
           size == Logs!Size(disk[p])
<1>1. /\ disk[p] \in LogFile /\ FileSound(p) /\ ReadTo(db, p)
  BY DEF ImportInv, FilesSound, FileTypes, StoreSound
<1>2. n \in Nat /\ i \in 1 .. n /\ Entries(p) = 1 .. n
  BY <1>1 DEF LogFile, LogOf, Entries
<1>3. /\ db.points[p].offset = size /\ db.points[p].size = size
      /\ db.points[p].stamp = disk[p].stamp
  BY DEF Logs!AtEnd
<1>4. size = 2 * n - (IF disk[p].torn THEN 1 ELSE 0)
  BY DEF Logs!Size, LogOf
<1>7. \E j \in Nat : db.points[p].offset = 2 * j
  BY DEF ImportInv, StoreSound, PointSound
<1> HIDE DEF n, size
<1>5. size \in Int
  BY <1>2, <1>4
<1>6. ~Logs!Shrunk(db, p)
  BY <1>3, <1>5 DEF Logs!Shrunk, size
<1> QED BY <1>1, <1>2, <1>3, <1>4, <1>5, <1>6, <1>7 DEF ReadTo, Readable

(* What is reported of a session as whole is what its log says last.       *)
LEMMA ReportedIsWholeHolds == ImportInv => Logs!ReportedIsWhole
<1> SUFFICES ASSUME ImportInv, Logs!Codex, NEW row \in db.sessions, NEW p \in Paths,
                    ~row.partial, disk[p].session = row.id, disk[p].state = "file", Logs!AtEnd(p),
                    NEW i \in DOMAIN disk[p].log,
                    disk[p].log[i].time > db.cutoff, disk[p].log[i].time > horizon
             PROVE  disk[p].log[i].value <= Logs!Sum(row.id)
  BY DEF Logs!ReportedIsWhole
<1> DEFINE r == LogOf(p)[i]
           s == row.id
<1>1. StoreSound(db) /\ FilesSound /\ FileTypes /\ db \in ImportDB
  BY DEF ImportInv, FilesSound, StoreSound
<1>2. /\ i \in Entries(p) /\ TotalRead(db, r) /\ r \in LogRecord /\ r.id = s
      /\ r = disk[p].log[i]
  <2>1. i \in Entries(p) /\ IsRead(db, r)
    BY ReadAtEnd
  <2> QED BY <1>1, <2>1, EntryTyped DEF IsRead, LogOf
<1>3. s \in Paths /\ r.time \in Nat /\ r.value \in Int /\ horizon \in Nat /\ db.cutoff \in Nat
  BY <1>1, <1>2 DEF LogRecord, FileTypes, ImportDB
<1>4. row \in SessionRows(db, s)
  BY DEF SessionRows
<1>5. PICK g : Stored(g, db, s)
  BY <1>1, <1>3 DEF StoreSound, Sound
<1>6. PICK o \in Row : Reads(g, db, s, o)
  BY <1>4, <1>5 DEF Stored, Unread
<1>7. SessionRows(db, s) = {row}
  BY <1>4, <1>6 DEF Reads
<1> DEFINE E == Events(db, s)
<1>8. SumOf(E) = db.counters[s].value /\ WholeNumbers(E)
  BY <1>4, <1>6, <1>7 DEF Reads
<1>9. SumOf(E) \in Nat /\ Logs!Sum(s) = SumOf(E)
  BY <1>8, SumOfType, ImportSum
<1> HIDE DEF E
<1>10. ~(r.time <= db.cutoff) /\ ~(r.time <= horizon)
  BY <1>2, <1>3
<1>11. r.value = Logs!Junk \/ r.value <= db.counters[s].value
  BY <1>2, <1>7, <1>10 DEF TotalRead
<1>12. Logs!Junk = -1
  BY DEF Logs!Junk
<1> QED BY <1>2, <1>3, <1>8, <1>9, <1>11, <1>12

(* A message counts as reported, or is excluded.                           *)
LEMMA MessagesAsReportedHolds == ImportInv => Logs!MessagesAsReported
<1> SUFFICES ASSUME ImportInv, ~Logs!Codex, NEW p \in Paths, disk[p].state = "file",
                    Logs!AtEnd(p), NEW i \in DOMAIN disk[p].log,
                    disk[p].log[i].value > 0, disk[p].log[i].time > db.cutoff, horizon = 0
             PROVE  LET r == disk[p].log[i] IN
                    \/ r.id \in db.conflicts /\ \A e \in db.events : e.id # r.id
                    \/ \E e \in db.events : e.id = r.id /\ e.value = r.value
  BY DEF Logs!MessagesAsReported
<1> DEFINE r == LogOf(p)[i]
<1>1. StoreSound(db) /\ FilesSound /\ db \in ImportDB
  BY DEF ImportInv, StoreSound
<1>2. /\ MessageRead(db, r) /\ r \in LogRecord /\ r = disk[p].log[i]
  <2>1. i \in Entries(p) /\ IsRead(db, r)
    BY ReadAtEnd
  <2> QED BY <1>1, <2>1, EntryTyped DEF IsRead, LogOf
<1>3. r.id \in Paths /\ r.time \in Nat /\ r.value \in Int /\ db.cutoff \in Nat
  BY <1>1, <1>2 DEF LogRecord, ImportDB
<1>4. MessageStored(db, r.id)
  BY <1>1, <1>3 DEF StoreSound, Sound
<1>5. ~(r.value <= 0) /\ ~(r.time <= db.cutoff)
  BY <1>2, <1>3
<1>6. r.id \in db.conflicts \/ \E x \in Events(db, r.id) : x.value = r.value
  BY <1>2, <1>5 DEF MessageRead
<1> HIDE DEF r
<1>7. \/ r.id \in db.conflicts /\ \A e \in db.events : e.id # r.id
      \/ \E e \in db.events : e.id = r.id /\ e.value = r.value
  BY <1>4, <1>6 DEF MessageStored, Events
<1> QED BY <1>2, <1>7

-----------------------------------------------------------------------------
(* The requests *)

Finished == {"complete", "partial"}

(* A scan of the generation of now has an outcome only if it was completed *)
(* in it, and none is of a generation yet to come.                         *)
RequestInv ==
  /\ iGeneration \in Nat /\ requestGen \in Nat
  /\ request \in {"none", "waiting", "scanning", "done"}
  /\ request # "none" => requestGen <= iGeneration
  /\ shown \in Finished => read
  /\ request = "done" /\ requestGen = iGeneration /\ outcome \in Finished => read

LEMMA RequestStarts == Requests!Init => RequestInv
BY DEF Requests!Init, RequestInv, Finished

LEMMA RequestSteps == RequestInv /\ [Requests!Next]_(Requests!vars) => RequestInv'
<1> SUFFICES ASSUME RequestInv, [Requests!Next]_(Requests!vars) PROVE RequestInv'
  OBVIOUS
<1> USE DEF RequestInv, Finished, Requests!Import, Requests!Ask
<1>1. CASE UNCHANGED Requests!vars
  BY <1>1 DEF Requests!vars
<1>2. CASE Requests!ImportTimer
  BY <1>2 DEF Requests!ImportTimer
<1>3. CASE Requests!Rescan
  BY <1>3 DEF Requests!Rescan
<1>4. CASE Requests!OtherToolSwitched
  BY <1>4 DEF Requests!OtherToolSwitched
<1>5. ASSUME NEW on \in BOOLEAN, Requests!SetToolEnabled(on) PROVE RequestInv'
  BY <1>5 DEF Requests!SetToolEnabled
<1>6. CASE Requests!Worker
  <2>1. CASE Requests!StartImport
    BY <2>1 DEF Requests!StartImport
  <2>2. CASE Requests!StartFails
    BY <2>2 DEF Requests!StartFails
  <2>3. ASSUME NEW result \in Requests!Outcomes, Requests!EndScan(result) PROVE RequestInv'
    BY <2>3 DEF Requests!EndScan
  <2> QED BY <1>6, <2>1, <2>2, <2>3 DEF Requests!Worker
<1>7. CASE Requests!ImportFinished
  BY <1>7 DEF Requests!ImportFinished
<1>8. CASE Requests!ClearSessions
  BY <1>8 DEF Requests!ClearSessions
<1>9. CASE Requests!Clears
  BY <1>9 DEF Requests!Clears, Requests!ClearSucceeds, Requests!ClearFails
<1>10. CASE Requests!OthersImport
  BY <1>10 DEF Requests!OthersImport
<1>11. CASE Requests!Crash
  BY <1>11 DEF Requests!Crash
<1> QED BY <1>1, <1>2, <1>3, <1>4, <1>5, <1>6, <1>7, <1>8, <1>9, <1>10, <1>11 DEF Requests!Next

(* For any number of logs, records, crashes of the tools and deletions:    *)
(* what is shown of a session was used in it, and once, is all its log     *)
(* says where it is not partial, a message counts as it was reported, and  *)
(* the outcome shown is of a scan of now (plugin/localsessionmodel.cpp).   *)
THEOREM ImportStaysFaithful == Logs!Spec /\ Requests!Spec => []ImportIsFaithful
<1>1. ImportInv => Logs!ImportIsFaithful
  BY CountedOnceHolds, ReportedIsWholeHolds, MessagesAsReportedHolds DEF Logs!ImportIsFaithful
<1>2. RequestInv => Requests!OutcomeIsCurrent
  BY DEF RequestInv, Finished, Requests!OutcomeIsCurrent
<1>3. ImportInv /\ RequestInv => ImportIsFaithful
  BY <1>1, <1>2 DEF ImportIsFaithful
<1>4. Logs!Spec => []ImportInv
  BY ImportStarts, ImportSteps, PTL DEF Logs!Spec
<1>5. Requests!Spec => []RequestInv
  BY RequestStarts, RequestSteps, PTL DEF Requests!Spec
<1> QED
  BY <1>3, <1>4, <1>5, PTL
=============================================================================
