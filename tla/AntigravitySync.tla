--------------------------- MODULE AntigravitySync ---------------------------
(***************************************************************************)
(* The sync of Google Antigravity (plugin/antigravitymonitor.cpp): the     *)
(* quota of the local language server is read over loopback.               *)
(*                                                                         *)
(* A sync looks for endpoints, in discovery files and among the processes, *)
(* and asks one after the other: with the Connect protocol, with gRPC      *)
(* where that is not understood, and after a status that could be read for *)
(* the shared quotas, which an older server does not know.  Meanwhile the  *)
(* monitor may be switched off and on; replies of an earlier sync are      *)
(* dropped.                                                                *)
(***************************************************************************)
EXTENDS Naturals, Sequences, SequencesExt

CONSTANTS
  Ports,           \* loopback ports a language server listens on
  Hosts,           \* loopback names a discovery file gives, Loopback among them
  Models,          \* the models of an account, in the order they are shown
  Buckets,         \* its shared quotas, in the order they are told
  Window,          \* of each bucket: "5h", "weekly"
  Figures,         \* percentages used
  Critical, Warning,
  MaxGenerations   \* bound: syncs begun or cancelled

Loopback == "127.0.0.1"
Absent == 101      \* a row without a figure
(* What listens on a port: a server that speaks Connect, an older one, or  *)
(* one whose certificate cannot be read.                                   *)
Kinds == {"connect", "legacy", "unreadable"}
Endpoint == [host : Hosts, port : Ports, kind : Kinds]
Row == [id : ToSet(Models) \cup ToSet(Buckets), window : ToSet(Window) \cup {""},
        used : Figures \cup {Absent}]

VARIABLES
  enabled,
  installed,   \* m_installed
  syncing, generation,
  pending,     \* m_pendingEndpoints
  attempt,     \* m_lastAttemptCode
  calls,
  state, code, \* m_connectionState, m_readinessCode
  synced,      \* lastSyncTime is valid
  shown,       \* m_syncedQuotaWindows
  maximum, band

outcome == <<state, code, synced, shown, maximum, band>>
vars == <<enabled, installed, syncing, generation, pending, attempt, calls, outcome>>

NoRow == [id |-> "", window |-> "", used |-> Absent]
(* Rows that differ in none of kind, window, scope and source are one: all *)
(* models, and the buckets of a window.                                    *)
Slots == ToSet(Window) \cup {""}

Init ==
  /\ enabled \in BOOLEAN /\ installed = FALSE
  /\ syncing = FALSE /\ generation = 0
  /\ pending = <<>> /\ attempt = "" /\ calls = {}
  /\ state = "idle" /\ code = "" /\ synced = FALSE
  /\ shown = [w \in Slots |-> NoRow]
  /\ maximum = 0 /\ band = 0

-----------------------------------------------------------------------------
(* Ends *)

Call(rpc, endpoint, rows) ==
  [gen |-> generation', rpc |-> rpc, endpoint |-> endpoint, rows |-> rows]

(* finishFailure: what was read before stays, as stale.                    *)
FinishFailure(reason) ==
  /\ syncing' = FALSE
  /\ state' = IF ~synced THEN "failed" ELSE "stale"
  /\ code' = reason
  /\ UNCHANGED <<synced, shown, maximum, band>>

MaxUsed(rows) ==
  LET used == {rows[i].used : i \in DOMAIN rows} \ {Absent}
  IN IF used = {} THEN 0 ELSE CHOOSE u \in used : \A v \in used : u >= v

(* setSyncedQuotaWindows: rows without a figure are passed over, and a row *)
(* replaces the one of the same identity.                                  *)
Merged(rows) ==
  [w \in Slots |->
     LET ofSlot == {i \in DOMAIN rows : rows[i].window = w /\ rows[i].used # Absent}
     IN IF ofSlot = {} THEN shown[w]
        ELSE rows[CHOOSE i \in ofSlot : \A k \in ofSlot : i >= k]]

FinishSuccess(rows, used) ==
  /\ syncing' = FALSE
  /\ state' = "connected" /\ code' = ""
  /\ synced' = TRUE
  /\ shown' = Merged(rows)
  /\ maximum' = used
  /\ band' = IF used >= Critical THEN 2 ELSE IF used >= Warning THEN 1 ELSE 0

-----------------------------------------------------------------------------
(* Starting *)

(* The discovery files that pass: a file of the user, that names a port on *)
(* a loopback host and has a token.                                        *)
Files == Hosts \X Ports
At(server, host, port) == [host |-> host, port |-> port, kind |-> server[port]]

(* endpointsFromDiscoveryFiles and endpointsFromProcesses: a port counts   *)
(* when a recognised process of the user listens on it.                    *)
Listening(server) == {p \in Ports : server[p] # "none"}
Named(server, files) == {At(server, f[1], f[2]) : f \in {g \in files : g[2] \in Listening(server)}}
Running(server) == {At(server, Loopback, p) : p \in Listening(server)}
ByPort(S) == {q \in SetToSeqs(S) : \A i, k \in DOMAIN q : i < k => q[i].port < q[k].port}

(* discoverEndpoints: those of the discovery files first, in any order,    *)
(* then those of the processes by port; each host and port once.           *)
Discovered(server, files) ==
  LET named == Named(server, files)
  IN {p[1] \o p[2] : p \in SetToSeqs(named) \X ByPort(Running(server) \ named)}

(* Mutant: after one endpoint failed the sync is given up.                 *)
TryNoOther(queue, last, others) ==
  /\ FinishFailure(IF last = "" THEN "invalid_response" ELSE last)
  /\ calls' = others /\ pending' = queue /\ attempt' = last

(* tryNextEndpoint: endpoints whose certificate cannot be read fail at     *)
(* once.                                                                   *)
TryNextEndpoint(queue, last, others) ==
  LET usable == {i \in DOMAIN queue : queue[i].kind # "unreadable"}
      reached == CHOOSE i \in usable : \A k \in usable : i <= k
      reason(skipped) == IF skipped THEN "tls_error" ELSE last
  IN IF usable = {}
     THEN /\ FinishFailure(IF reason(queue # <<>>) = "" THEN "invalid_response"
                           ELSE reason(queue # <<>>))
          /\ calls' = others /\ pending' = <<>> /\ attempt' = reason(queue # <<>>)
     ELSE /\ calls' = others \cup
                {Call(IF queue[reached].kind = "connect" THEN "status" ELSE "legacy",
                      queue[reached], <<>>)}
          /\ pending' = SubSeq(queue, reached + 1, Len(queue))
          /\ attempt' = reason(reached > 1)
          /\ syncing' = TRUE /\ state' = "connecting" /\ code' = ""
          /\ UNCHANGED <<synced, shown, maximum, band>>

(* refreshQuota, asked for by its timer, by a recovery or the popup when   *)
(* the last success is old, and by the user at any time.                   *)
RefreshQuota ==
  /\ enabled /\ ~syncing /\ generation < MaxGenerations
  /\ generation' = generation + 1
  /\ \/ /\ installed' = FALSE
        /\ FinishFailure("not_installed") /\ UNCHANGED <<pending, attempt, calls>>
     \/ /\ installed' = TRUE
        /\ \E server \in [Ports -> Kinds \cup {"none"}], files \in SUBSET Files :
             \E queue \in Discovered(server, files) :
               IF queue = <<>>
               THEN /\ FinishFailure("daemon_not_running")
                    /\ pending' = <<>> /\ attempt' = "" /\ UNCHANGED calls
               ELSE TryNextEndpoint(queue, "", calls)
  /\ UNCHANGED enabled

(* Mutant: switching off leaves the sync as it is.                         *)
SetEnabledOnly(b) ==
  /\ b # enabled /\ enabled' = b
  /\ UNCHANGED <<installed, syncing, generation, pending, attempt, calls, outcome>>

(* setEnabled: on looks for the application, off cancels the sync - and    *)
(* leaves the connection state as it is.                                   *)
SetEnabled(b) ==
  /\ b # enabled /\ enabled' = b
  /\ IF b
     THEN /\ installed' \in BOOLEAN
          /\ IF installed' THEN UNCHANGED <<state, code>>
             ELSE state' = "unavailable" /\ code' = "not_installed"
          /\ UNCHANGED <<syncing, generation>>
     ELSE /\ generation < MaxGenerations
          /\ generation' = generation + 1 /\ syncing' = FALSE
          /\ UNCHANGED <<installed, state, code>>
  /\ UNCHANGED <<pending, attempt, calls, synced, shown, maximum, band>>

-----------------------------------------------------------------------------
(* Replies *)

(* syncReplyIsCurrent                                                      *)
Current(c) == enabled /\ c.gen = generation

Dropped(c) ==
  /\ ~Current(c) /\ calls' = calls \ {c}
  /\ UNCHANGED <<enabled, installed, syncing, generation, pending, attempt, outcome>>

Answered(c) == Current(c) /\ UNCHANGED <<enabled, installed, generation>>

Failures == {"tls_error", "timeout", "daemon_not_running",
             "invalid_response", "not_signed_in", "unsupported_version"}

(* The endpoint does not answer, or with something of no use.              *)
Fails(c, reason) ==
  /\ Answered(c) /\ c.rpc \in {"status", "legacy"}
  /\ TryNextEndpoint(pending, reason, calls \ {c})

(* A status that is unknown to the server, or that cannot be read, is      *)
(* asked for by the older protocol.                                        *)
NotUnderstood(c) ==
  /\ Answered(c) /\ c.rpc = "status"
  /\ calls' = (calls \ {c}) \cup {Call("legacy", c.endpoint, <<>>)}
  /\ UNCHANGED <<syncing, pending, attempt, outcome>>

(* The rows of the models, one each, and those of the shared quotas.       *)
StatusRows == {[i \in DOMAIN Models |-> [id |-> Models[i], window |-> "", used |-> used[i]]] :
                 used \in [DOMAIN Models -> Figures \cup {Absent}]}
SummaryRows == {[i \in DOMAIN Buckets |-> [id |-> Buckets[i], window |-> Window[i],
                                           used |-> used[i]]] :
                  used \in [DOMAIN Buckets -> Figures \cup {Absent}]}

StatusArrives(c, rows) ==
  /\ Answered(c) /\ c.rpc = "status"
  /\ calls' = (calls \ {c}) \cup {Call("summary", c.endpoint, rows)}
  /\ UNCHANGED <<syncing, pending, attempt, outcome>>

LegacyArrives(c, rows) ==
  /\ Answered(c) /\ c.rpc = "legacy"
  /\ calls' = calls \ {c} /\ UNCHANGED <<pending, attempt>>
  /\ FinishSuccess(rows, MaxUsed(rows))

(* The summary is additional: without one the status is enough.            *)
SummaryMissing(c) ==
  /\ Answered(c) /\ c.rpc = "summary"
  /\ calls' = calls \ {c} /\ UNCHANGED <<pending, attempt>>
  /\ FinishSuccess(c.rows, MaxUsed(c.rows))

SummaryArrives(c, rows) ==
  /\ Answered(c) /\ c.rpc = "summary"
  /\ calls' = calls \ {c} /\ UNCHANGED <<pending, attempt>>
  /\ FinishSuccess(rows \o c.rows, MaxUsed(rows \o c.rows))

Reply(c) ==
  \/ Dropped(c) \/ NotUnderstood(c)
  \/ \E reason \in Failures : Fails(c, reason)
  \/ \E rows \in StatusRows : StatusArrives(c, rows) \/ LegacyArrives(c, rows)
  \/ SummaryMissing(c)
  \/ \E rows \in SummaryRows : SummaryArrives(c, rows)

Replies == \E c \in calls : Reply(c)

Next ==
  \/ RefreshQuota
  \/ \E b \in BOOLEAN : SetEnabled(b)
  \/ Replies

Spec == Init /\ [][Next]_vars

(* Every request ends by its transfer timeout of five seconds.             *)
FairSpec == Spec /\ WF_vars(Replies)

-----------------------------------------------------------------------------
(* Properties *)

(* Every variable stays in its domain.                                     *)
TypeOK ==
  /\ {enabled, installed, syncing, synced} \subseteq BOOLEAN
  /\ generation \in 0 .. MaxGenerations
  /\ ToSet(pending) \subseteq Endpoint
  /\ \A c \in calls : c.gen \in 1 .. generation /\ c.endpoint \in Endpoint
                        /\ ToSet(c.rows) \subseteq Row
  /\ shown \in [Slots -> Row \cup {NoRow}]
  /\ band \in 0 .. 2

(* A sync waits for exactly one reply, across protocols, endpoints and     *)
(* steps, and without a sync nothing is waited for, also when the monitor  *)
(* was switched off and on meanwhile.                                      *)
OneCallPerSync ==
  LET live == {c \in calls : Current(c)}
  IN IF syncing THEN \E c \in live : live = {c} ELSE live = {}

(* A sync fails only when no endpoint is left to ask: a server that is     *)
(* down, old or signed out never hides another one.                        *)
EveryEndpointAsked ==
  state \in {"failed", "stale"} /\ code # "not_installed" => pending = <<>>

(* subscriptions.md: the widget shows the shared buckets "and keeps the    *)
(* per-model rows returned for the account" - each that has a figure.      *)
ModelRowsKept ==
  [][\A c \in calls \ calls' :
       c.rpc = "summary" /\ Current(c) =>
         \A i \in DOMAIN c.rows :
           c.rows[i].used # Absent => \E w \in Slots : shown'[w].id = c.rows[i].id]_vars

(* Every sync ends, answered or cancelled.                                 *)
SyncOver(g) == ~(syncing /\ generation = g)
SyncEnds == \A g \in 1 .. MaxGenerations : []<>SyncOver(g)
=============================================================================
